---- MODULE Spec2Model ----
(***************************************************************************)
(* The OAuth2-authenticated OpenEMR API client                             *)
(* (agent/openemr_client.py): token store, token flows, Ensure-Token and   *)
(* the request executor, run by cooperatively scheduled tasks on one event *)
(* loop.  A task is suspended only at an HTTP await; everything between    *)
(* two awaits is one atomic step.                                          *)
(***************************************************************************)
EXTENDS Integers, Sequences, FiniteSets, TLC

\* ------------------------------------------------------------------ bounds

\* Times the wall clock is advanced in one behaviour.
MaxTicks == 1
\* time.time() when the client is constructed.
StartTime == 1000

\* ------------------------------------------------------- program constants

\* data.get("expires_in", 3600)
DefaultExpiresIn == 3600
\* time.time() + expires_in - 60
ExpiryBuffer == 60
\* if response.status_code == 401
Unauthorized == 401
\* if response.status_code >= 400
ErrorFloor == 400

\* ------------------------------------------------------------ environment

\* Slots for calls in flight on the event loop.
Tasks == {1, 2}
Methods == {"GET", "POST"}
\* The clock moves to just before, or past, the expiry of an hour's token.
TickSteps == {3539, 3601}

AccessTokens == {"t1", "t2"}
RefreshTokens == {"r1"}
\* A lifetime of 0, one the buffer eats up exactly, and the usual hour.
ExpiresIns == {0, 60, 3600}

\* A JSON object of a token response: the keys it has and their values
\* (rt = "" and e = -1 build an object without that key).
TokenDict(at, rt, e) ==
    [keys |-> {"access_token"}
                \cup (IF rt = "" THEN {} ELSE {"refresh_token"})
                \cup (IF e < 0 THEN {} ELSE {"expires_in"}),
     access_token |-> at,
     refresh_token |-> rt,
     expires_in |-> IF e < 0 THEN 0 ELSE e,
     number |-> TRUE]

\* A token object whose expires_in is not a number (null, or a string such as
\* "3600"): number tells whether time.time() + expires_in can be computed.
BadLifetimeDict(at, rt) ==
    [keys |-> {"access_token", "expires_in"}
                \cup (IF rt = "" THEN {} ELSE {"refresh_token"}),
     access_token |-> at,
     refresh_token |-> rt,
     expires_in |-> 0,
     number |-> FALSE]

ErrorDict == [keys |-> {"error"}, access_token |-> "", refresh_token |-> "",
              expires_in |-> 0, number |-> TRUE]

\* What the token endpoint can answer: no answer (connection error, timeout),
\* an error status, or a success status with a body that is not JSON, JSON
\* without access_token, or a token object (refresh_token and expires_in
\* optional, expires_in a number or not).
TokenResponses ==
    {[transport |-> TRUE, status |-> 0, text |-> "timeout", json |-> FALSE,
      data |-> ErrorDict]}
    \cup {[transport |-> FALSE, status |-> s, text |-> "invalid_grant",
           json |-> TRUE, data |-> ErrorDict] : s \in {401, 500}}
    \cup {[transport |-> FALSE, status |-> 200, text |-> "<html>",
           json |-> FALSE, data |-> ErrorDict]}
    \cup {[transport |-> FALSE, status |-> 200, text |-> "{error}",
           json |-> TRUE, data |-> ErrorDict]}
    \cup {[transport |-> FALSE, status |-> 200, text |-> "{token}",
           json |-> TRUE, data |-> TokenDict(at, rt, e)] :
            at \in AccessTokens, rt \in RefreshTokens \cup {""},
            e \in ExpiresIns \cup {-1}}
    \cup {[transport |-> FALSE, status |-> 200, text |-> "{token}",
           json |-> TRUE, data |-> BadLifetimeDict(at, rt)] :
            at \in AccessTokens, rt \in RefreshTokens \cup {""}}

\* The token responses that differ for a client whose clock stands still: a
\* lifetime only makes the token stale at once (0) or not (3600); one of 60
\* acts as 0 does and an absent one as 3600 does.
TokenResponsesNoClock ==
    {r \in TokenResponses :
        \/ "access_token" \notin r.data.keys
        \/ ~r.data.number
        \/ "expires_in" \in r.data.keys /\ r.data.expires_in \in {0, 3600}}

\* What a data endpoint can answer.  value is the parsed body when json.
DataResponses ==
    {[transport |-> TRUE, status |-> 0, text |-> "timeout", json |-> FALSE,
      value |-> "none"],
     [transport |-> FALSE, status |-> 200, text |-> "[]", json |-> TRUE,
      value |-> "empty list"],
     [transport |-> FALSE, status |-> 200, text |-> "<html>", json |-> FALSE,
      value |-> "none"],
     [transport |-> FALSE, status |-> 302, text |-> "[]", json |-> TRUE,
      value |-> "empty list"],
     [transport |-> FALSE, status |-> 401, text |-> "Token expired",
      json |-> FALSE, value |-> "none"],
     [transport |-> FALSE, status |-> 404, text |-> "Not Found",
      json |-> FALSE, value |-> "none"],
     [transport |-> FALSE, status |-> 500, text |-> "Internal Server Error",
      json |-> FALSE, value |-> "none"]}

\* The configured client credentials agent.config reads from the
\* environment: none (the default), or those of a client registered before.
Configs == {<<"", "">>, <<"app", "s3cret">>}

\* The other constructor arguments: the base URL and the site as
\* agent.config gives them, a user's name and password.  A URL is the
\* sequence of its path segments, so that joining two is concatenation.
OPENEMR_BASE_URL == <<"https://localhost:9300">>
OPENEMR_SITE == "default"
Username == "admin"
Password == "pass"

\* The arguments of get (endpoint, params) and post (endpoint, json_data);
\* "None" is the default of an argument left out.
Arguments(m) ==
    IF m = "GET"
    THEN {[endpoint |-> <<"patient">>, params |-> "fname=Phil",
           json_data |-> "None"],
          [endpoint |-> <<"patient", "p1", "allergy">>, params |-> "None",
           json_data |-> "None"]}
    ELSE {[endpoint |-> <<"patient">>, params |-> "None",
           json_data |-> "fname=Jane"],
          [endpoint |-> <<"patient">>, params |-> "None",
           json_data |-> "None"]}

\* get(endpoint) and post(endpoint) with the other argument left out.
Plain(m) ==
    [endpoint |-> <<"patient">>, params |-> "None", json_data |-> "None"]

\* No call in the slot.
NoArgs == [endpoint |-> <<>>, params |-> "None", json_data |-> "None"]

\* The JSON object of a registration response (csec = "" builds an object
\* without client_secret).
RegistrationDict(cid, csec) ==
    [keys |-> {"client_id"}
                \cup (IF csec = "" THEN {} ELSE {"client_secret"}),
     client_id |-> cid,
     client_secret |-> csec]

NoClientDict == [keys |-> {"error"}, client_id |-> "", client_secret |-> ""]

\* What the registration endpoint can answer: no answer, an error status, or
\* a success status with a body that is not JSON, JSON without client_id, or
\* the registered client (client_secret optional).
RegistrationResponses ==
    {[transport |-> TRUE, status |-> 0, text |-> "timeout", json |-> FALSE,
      data |-> NoClientDict],
     [transport |-> FALSE, status |-> 400, text |-> "invalid_client_metadata",
      json |-> TRUE, data |-> NoClientDict],
     [transport |-> FALSE, status |-> 200, text |-> "<html>", json |-> FALSE,
      data |-> NoClientDict],
     [transport |-> FALSE, status |-> 200, text |-> "{error}", json |-> TRUE,
      data |-> NoClientDict],
     [transport |-> FALSE, status |-> 200, text |-> "{client}", json |-> TRUE,
      data |-> RegistrationDict("X", "Y")],
     [transport |-> FALSE, status |-> 200, text |-> "{client}", json |-> TRUE,
      data |-> RegistrationDict("X", "")]}

\* A token response _token_request can store, and one that is a failure of
\* the token request (no answer, or an error status).
Usable(r) ==
    /\ ~r.transport
    /\ r.status \in 200..299
    /\ r.json
    /\ "access_token" \in r.data.keys
    /\ r.data.number
Failed(r) == r.transport \/ r.status \notin 200..299

\* ------------------------------------------------------------------ state

VARIABLES
    OPENEMR_CLIENT_ID,      \* agent.config: the configured client identifier
    OPENEMR_CLIENT_SECRET,  \* agent.config: the configured client secret
    _client,            \* the module's singleton ("None" or the instance)
    constructed,        \* how many times OpenEMRClient() was called
    client_id,          \* self.client_id
    client_secret,      \* self.client_secret
    settings,           \* the fields __init__ sets from its other arguments
    _http,              \* self._http: the connection pool, "open" or "closed"
    access_token,       \* self._access_token ("" when none is held)
    refresh_token,      \* self._refresh_token ("" when none is held)
    token_expires_at,   \* self._token_expires_at
    data,               \* the JSON object _token_request stored last
    now,                \* what time.time() returns
    ticks,              \* times the clock was advanced
    pc,                 \* per task: the await its call is suspended at
    op,                 \* per task: the HTTP method of its call
    args,               \* per task: the arguments of its call
    sent,               \* per task: the requests its call has sent, in order
    statuses,           \* per task: the status of each data response its call
                        \* has received (0: the request failed in transport)
    result,             \* per task: what its call returned or raised
    tool,               \* the tool function being run ("none" when none is)
    argv,               \* its arguments; a query is the list of its words
    tpc,                \* the await the tool is suspended at
    searches,           \* the params of each client.get the tool has called
    results,            \* the tool's local variable results
    outcome             \* what the tool returned or raised

vars == <<OPENEMR_CLIENT_ID, OPENEMR_CLIENT_SECRET, _client, constructed,
          client_id, client_secret, settings, _http, access_token,
          refresh_token, token_expires_at, data, now, ticks, pc, op, args,
          sent, statuses, result, tool, argv, tpc, searches, results,
          outcome>>

\* The state of the tool layer, which no method of the client touches.
tools == <<tool, argv, tpc, searches, results, outcome>>

\* No tool has returned or raised.
NoOutcome == [kind |-> "none", template |-> "", detail |-> ""]

store == <<access_token, refresh_token, token_expires_at>>

config == <<OPENEMR_CLIENT_ID, OPENEMR_CLIENT_SECRET>>
singleton == <<_client, constructed>>
credentials == <<client_id, client_secret>>
facade == <<settings, _http>>

\* What get/post calls never write: the configuration, the singleton, the
\* client credentials, the other fields of __init__ and the pool.
setup == <<config, singleton, credentials, facade>>

\* What __init__ computes from its arguments other than the client
\* credentials.
NewSettings ==
    [base_url |-> OPENEMR_BASE_URL,
     site |-> OPENEMR_SITE,
     username |-> Username,
     password |-> Password,
     scopes |-> "DEFAULT_SCOPES",
     oauth_base |-> OPENEMR_BASE_URL \o <<"oauth2", OPENEMR_SITE>>,
     api_base |-> OPENEMR_BASE_URL \o <<"apis", OPENEMR_SITE, "api">>]

\* No token response stored yet.
NoData == [keys |-> {}, access_token |-> "", refresh_token |-> "",
           expires_in |-> 0, number |-> TRUE]

NoResult == [kind |-> "none", status_code |-> 0, detail |-> "", value |-> "none"]

\* A returned value or a raised exception.
Returned(v) == [kind |-> "return", status_code |-> 0, detail |-> "", value |-> v]
Exception(k, s, d) == [kind |-> k, status_code |-> s, detail |-> d, value |-> "none"]

\* -------------------------------------------------------------- requests

\* _register_client's request.
RegistrationRequest ==
    [kind |-> "registration", grant_type |-> "", refresh_token |-> "",
     method |-> "POST", auth |-> "", client_id |-> "", client_secret |-> "",
     url |-> settings.oauth_base \o <<"registration">>, params |-> "None",
     json |-> "registration", accept |-> ""]

\* A password-grant payload with the given client credentials.
PasswordPayload(cid, csec) ==
    [kind |-> "token", grant_type |-> "password", refresh_token |-> "",
     method |-> "POST", auth |-> "", client_id |-> cid, client_secret |-> csec,
     url |-> settings.oauth_base \o <<"token">>, params |-> "None",
     json |-> "None", accept |-> ""]

\* Faulty variant: the payload carries the configured credentials, not the
\* client's.
PasswordRequest_FromConfig ==
    PasswordPayload(OPENEMR_CLIENT_ID, OPENEMR_CLIENT_SECRET)

\* _get_token's payload.
PasswordRequest == PasswordPayload(client_id, client_secret)

\* _refresh_token_grant's payload.
RefreshRequest(rt) ==
    [kind |-> "token", grant_type |-> "refresh_token", refresh_token |-> rt,
     method |-> "POST", auth |-> "",
     client_id |-> client_id, client_secret |-> client_secret,
     url |-> settings.oauth_base \o <<"token">>, params |-> "None",
     json |-> "None", accept |-> ""]

\* _request's data request: the method, the URL (the API base joined with
\* the endpoint), the query parameters, the JSON body and the two headers.
DataRequest(m, a, at) ==
    [kind |-> "data", grant_type |-> "", refresh_token |-> "",
     method |-> m, auth |-> at, client_id |-> "", client_secret |-> "",
     url |-> settings.api_base \o a.endpoint, params |-> a.params,
     json |-> a.json_data, accept |-> "application/json"]

\* Faulty variant: the resend is rebuilt without the query parameters and
\* the body.
Resend_Bare(q, at) ==
    [q EXCEPT !.auth = at, !.params = "None", !.json = "None"]

\* The request _request sends again after a 401: the method, the URL, the
\* parameters and the body of the first attempt, and its headers with
\* Authorization replaced.
Resend(q, at) == [q EXCEPT !.auth = at]

\* ----------------------------------------------------------- pure helpers

\* dict.get(key, default)
Get(d, k, default) == IF k \in d.keys THEN d[k] ELSE default

\* httpx's Response.is_success, which raise_for_status tests.
IsSuccess(s) == s >= 200 /\ s < 300

\* Faulty variant: a token is stale only once its expiry instant has passed.
Stale_StrictlyPast == access_token = "" \/ now > token_expires_at

\* _ensure_token's test.
Stale == access_token = "" \/ now >= token_expires_at

\* Faulty variant: a stale token is always renewed by the refresh grant.
EnsureToken_AlwaysRefresh == IF Stale THEN "refresh" ELSE "none"

\* What _ensure_token does: nothing, the refresh grant or the password grant.
EnsureToken ==
    IF Stale
    THEN IF refresh_token # "" THEN "refresh" ELSE "password"
    ELSE "none"

\* How _token_request ends for a response.
TokenOutcome(r) ==
    IF r.transport THEN "OpenEMRAuthError"
    ELSE IF ~IsSuccess(r.status) THEN "OpenEMRAuthError"
    ELSE IF ~r.json THEN "JSONDecodeError"
    ELSE IF "access_token" \notin r.data.keys THEN "KeyError"
    ELSE IF ~r.data.number THEN "TypeError"
    ELSE "ok"

\* Faulty variant: the authentication error carries the status but not the
\* response body.
TokenError_NoBody(r) ==
    IF TokenOutcome(r) = "OpenEMRAuthError"
    THEN Exception("OpenEMRAuthError", r.status, "")
    ELSE Exception(TokenOutcome(r), 0, r.text)

\* The exception _token_request raises: the authentication error carries the
\* status and the body (or the transport error's text).
TokenError(r) ==
    IF TokenOutcome(r) = "OpenEMRAuthError"
    THEN Exception("OpenEMRAuthError", r.status, r.text)
    ELSE Exception(TokenOutcome(r), 0, r.text)

\* Faulty variant: the status of the registration response is not looked at.
RegistrationOutcome_AnyStatus(r) ==
    IF r.transport THEN "OpenEMRAuthError"
    ELSE IF ~r.json THEN "JSONDecodeError"
    ELSE IF "client_id" \notin r.data.keys THEN "KeyError"
    ELSE "ok"

\* How _register_client ends for a response.
RegistrationOutcome(r) ==
    IF r.transport THEN "OpenEMRAuthError"
    ELSE IF ~IsSuccess(r.status) THEN "OpenEMRAuthError"
    ELSE IF ~r.json THEN "JSONDecodeError"
    ELSE IF "client_id" \notin r.data.keys THEN "KeyError"
    ELSE "ok"

\* Faulty variant: a refused registration is reported as an API error.
RegistrationError_AsApiError(r) ==
    IF RegistrationOutcome(r) = "OpenEMRAuthError"
    THEN Exception("OpenEMRAPIError", r.status, r.text)
    ELSE Exception(RegistrationOutcome(r), 0, r.text)

\* The exception _register_client raises: the authentication error carries
\* the status and the body (or the transport error's text).
RegistrationError(r) ==
    IF RegistrationOutcome(r) = "OpenEMRAuthError"
    THEN Exception("OpenEMRAuthError", r.status, r.text)
    ELSE Exception(RegistrationOutcome(r), 0, r.text)

\* The instance the n-th call of OpenEMRClient() makes.
InstanceName(n) ==
    CASE n = 1 -> "client1"
      [] n = 2 -> "client2"
      [] OTHER -> "client3"

\* Faulty variant: a singleton that holds no access token yet is replaced.
HasClient_Initialized == _client # "None" /\ access_token # ""

\* get_client's test: is there a singleton already?
HasClient == _client # "None"

\* Faulty variant: every error status is retried.
IsRetryStatus_AnyError(s) == s >= ErrorFloor

\* Whether _request re-authenticates and resends.
IsRetryStatus(s) == s = Unauthorized

\* Whether _request raises OpenEMRAPIError for the final response.
IsErrorStatus(s) == s >= ErrorFloor

\* What the first data request's transport failure raises, and the resent
\* one's: the resend is outside the try block, so httpx's error leaves
\* _request as it is.
FirstTransportError(r) == Exception("OpenEMRAPIError", 0, r.text)
RetryTransportError(r) == Exception("HTTPError", 0, r.text)

\* Faulty variant: the API error carries the status but not the response body.
FinalResult_NoBody(r) ==
    IF IsErrorStatus(r.status)
    THEN Exception("OpenEMRAPIError", r.status, "")
    ELSE IF r.json
         THEN Returned(r.value)
         ELSE Exception("JSONDecodeError", 0, r.text)

\* What _request does with the final response: raise or return.
FinalResult(r) ==
    IF IsErrorStatus(r.status)
    THEN Exception("OpenEMRAPIError", r.status, r.text)
    ELSE IF r.json
         THEN Returned(r.value)
         ELSE Exception("JSONDecodeError", 0, r.text)

\* ----------------------------------------------------- reading the history

\* The data requests a call has sent so far, and its token requests by grant.
DataSent(t) == SelectSeq(sent[t], LAMBDA q : q.kind = "data")
GrantsSent(t, g) == SelectSeq(sent[t], LAMBDA q : q.grant_type = g)
\* The requests a call sent before its first data request (Ensure-Token's)
\* and after it (the 401 path's).
FirstData(t) ==
    IF \E i \in DOMAIN sent[t] : sent[t][i].kind = "data"
    THEN CHOOSE i \in DOMAIN sent[t] :
            /\ sent[t][i].kind = "data"
            /\ \A j \in 1..(i - 1) : sent[t][j].kind # "data"
    ELSE Len(sent[t]) + 1
BeforeData(t) == SubSeq(sent[t], 1, FirstData(t) - 1)
AfterData(t) == SubSeq(sent[t], FirstData(t) + 1, Len(sent[t]))
Running(t) == pc[t] \notin {"idle", "done"}

\* -------------------------------------------------------- action fragments

\* A finished call hands its result to its caller before the loop runs
\* anything else.
NoneDone == \A u \in Tasks : pc[u] # "done"

\* The task sends a request and is suspended until its response.  On a
\* closed pool httpx sends nothing and raises RuntimeError, which no except
\* clause of the client catches: the call is over.
Await(t, req, next) ==
    IF _http = "closed"
    THEN /\ pc' = [pc EXCEPT ![t] = "done"]
         /\ result' = [result EXCEPT ![t] =
                          Exception("RuntimeError", 0, "client closed")]
         /\ UNCHANGED sent
    ELSE /\ sent' = [sent EXCEPT ![t] = Append(@, req)]
         /\ pc' = [pc EXCEPT ![t] = next]
         /\ UNCHANGED result

\* The call ends: it returns or raises.
Finish(t, res) ==
    /\ pc' = [pc EXCEPT ![t] = "done"]
    /\ result' = [result EXCEPT ![t] = res]
    /\ UNCHANGED sent

\* Faulty variant: a response without refresh_token clears the stored one.
StoreToken_DropRefresh(r) ==
    /\ access_token' = r.data.access_token
    /\ refresh_token' = Get(r.data, "refresh_token", "")
    /\ token_expires_at' =
          now + Get(r.data, "expires_in", DefaultExpiresIn) - ExpiryBuffer
    /\ data' = r.data

\* _token_request after a usable response: the three fields are written.
StoreToken(r) ==
    /\ access_token' = r.data.access_token
    /\ refresh_token' = Get(r.data, "refresh_token", refresh_token)
    /\ token_expires_at' =
          now + Get(r.data, "expires_in", DefaultExpiresIn) - ExpiryBuffer
    /\ data' = r.data

\* Faulty variant: a token request that raises clears the Token Store.
Abort_Clears(r) ==
    /\ access_token' = ""
    /\ refresh_token' = ""
    /\ token_expires_at' = 0
    /\ UNCHANGED data

\* What _token_request has written when it raises: nothing, except that an
\* expires_in that is not a number makes the sum for the expiry raise after
\* the access token and the refresh token were assigned.
Abort(r) ==
    IF TokenOutcome(r) = "TypeError"
    THEN /\ access_token' = r.data.access_token
         /\ refresh_token' = Get(r.data, "refresh_token", refresh_token)
         /\ data' = r.data
         /\ UNCHANGED token_expires_at
    ELSE UNCHANGED <<store, data>>

\* ---------------------------------------------------------------- actions

\* Faulty variant: a call on a client without a client identifier registers
\* it first.
Start_Registers(t, m, a) ==
    /\ pc[t] = "idle"
    /\ NoneDone
    /\ \A u \in Tasks : u < t => pc[u] # "idle"
    /\ op' = [op EXCEPT ![t] = m]
    /\ args' = [args EXCEPT ![t] = a]
    /\ CASE client_id = "" ->
              Await(t, RegistrationRequest, "register")
         [] EnsureToken = "refresh" ->
              Await(t, RefreshRequest(refresh_token), "refresh")
         [] EnsureToken = "password" ->
              Await(t, PasswordRequest, "ensure_password")
         [] OTHER ->
              Await(t, DataRequest(m, a, access_token), "data")
    /\ UNCHANGED <<store, data, setup, now, ticks, statuses>>

\* get()/post() up to the first await: Ensure-Token, then the data request.
\* A new call takes the lowest free slot.
Start(t, m, a) ==
    /\ pc[t] = "idle"
    /\ NoneDone
    /\ \A u \in Tasks : u < t => pc[u] # "idle"
    /\ op' = [op EXCEPT ![t] = m]
    /\ args' = [args EXCEPT ![t] = a]
    /\ CASE EnsureToken = "refresh" ->
              Await(t, RefreshRequest(refresh_token), "refresh")
         [] EnsureToken = "password" ->
              Await(t, PasswordRequest, "ensure_password")
         [] OTHER ->
              Await(t, DataRequest(m, a, access_token), "data")
    /\ UNCHANGED <<store, data, setup, now, ticks, statuses>>

\* A call that starts while no other call is in flight.
SequentialStart(t, m, a) ==
    /\ \A u \in Tasks : pc[u] = "idle"
    /\ Start(t, m, a)

\* Faulty variant: no fallback: a failed refresh ends the call.
RefreshReply_NoFallback(t, r) ==
    /\ pc[t] = "refresh"
    /\ NoneDone
    /\ IF TokenOutcome(r) = "ok"
       THEN /\ StoreToken(r)
            /\ Await(t, DataRequest(op[t], args[t], access_token'), "data")
       ELSE /\ Abort(r)
            /\ Finish(t, TokenError(r))
    /\ UNCHANGED <<setup, now, ticks, op, args, statuses>>

\* The refresh grant's response: store it and send the data request, or
\* fall back to the password grant.
RefreshReply(t, r) ==
    /\ pc[t] = "refresh"
    /\ NoneDone
    /\ IF TokenOutcome(r) = "ok"
       THEN /\ StoreToken(r)
            /\ Await(t, DataRequest(op[t], args[t], access_token'), "data")
       ELSE /\ Abort(r)
            /\ IF TokenOutcome(r) = "OpenEMRAuthError"
               THEN Await(t, PasswordRequest, "fallback_password")
               ELSE Finish(t, TokenError(r))
    /\ UNCHANGED <<setup, now, ticks, op, args, statuses>>

\* Faulty variant: a failed password grant is swallowed like a failed refresh: the
\* data request goes out with whatever token is held.
PasswordReply_Swallow(t, r) ==
    /\ pc[t] \in {"ensure_password", "fallback_password"}
    /\ NoneDone
    /\ IF TokenOutcome(r) = "ok"
       THEN /\ StoreToken(r)
            /\ Await(t, DataRequest(op[t], args[t], access_token'), "data")
       ELSE /\ Abort(r)
            /\ IF TokenOutcome(r) = "OpenEMRAuthError"
               THEN Await(t, DataRequest(op[t], args[t], access_token), "data")
               ELSE Finish(t, TokenError(r))
    /\ UNCHANGED <<setup, now, ticks, op, args, statuses>>

\* Faulty variant: staleness is tested again after the renewal, and a token that
\* is stale as stored is renewed once more.
PasswordReply_Recheck(t, r) ==
    /\ pc[t] \in {"ensure_password", "fallback_password"}
    /\ NoneDone
    /\ IF TokenOutcome(r) = "ok"
       THEN /\ StoreToken(r)
            /\ IF now >= token_expires_at'
               THEN Await(t, PasswordRequest, "ensure_password")
               ELSE Await(t, DataRequest(op[t], args[t], access_token'),
                          "data")
       ELSE /\ Abort(r)
            /\ Finish(t, TokenError(r))
    /\ UNCHANGED <<setup, now, ticks, op, args, statuses>>

\* The response of Ensure-Token's password grant (first issuance or the
\* fallback): store it and send the data request, or raise.
PasswordReply(t, r) ==
    /\ pc[t] \in {"ensure_password", "fallback_password"}
    /\ NoneDone
    /\ IF TokenOutcome(r) = "ok"
       THEN /\ StoreToken(r)
            /\ Await(t, DataRequest(op[t], args[t], access_token'), "data")
       ELSE /\ Abort(r)
            /\ Finish(t, TokenError(r))
    /\ UNCHANGED <<setup, now, ticks, op, args, statuses>>

\* Faulty variant: after a 401 the token is renewed as Ensure-Token would, by the
\* refresh grant when a refresh token is held.
DataReply_RefreshOn401(t, r) ==
    /\ pc[t] = "data"
    /\ NoneDone
    /\ statuses' = [statuses EXCEPT ![t] = Append(@, r.status)]
    /\ IF r.transport
       THEN Finish(t, FirstTransportError(r))
       ELSE IF IsRetryStatus(r.status)
            THEN IF refresh_token # ""
                 THEN Await(t, RefreshRequest(refresh_token),
                            "reauth_password")
                 ELSE Await(t, PasswordRequest, "reauth_password")
            ELSE Finish(t, FinalResult(r))
    /\ UNCHANGED <<store, data, setup, now, ticks, op, args>>

\* The first data response.
DataReply(t, r) ==
    /\ pc[t] = "data"
    /\ NoneDone
    /\ statuses' = [statuses EXCEPT ![t] = Append(@, r.status)]
    /\ IF r.transport
       THEN Finish(t, FirstTransportError(r))
       ELSE IF IsRetryStatus(r.status)
            THEN Await(t, PasswordRequest, "reauth_password")
            ELSE Finish(t, FinalResult(r))
    /\ UNCHANGED <<store, data, setup, now, ticks, op, args>>

\* Faulty variant: the header is not refreshed: the resend carries the token of the
\* first attempt.
ReauthReply_StaleHeader(t, r) ==
    /\ pc[t] = "reauth_password"
    /\ NoneDone
    /\ IF TokenOutcome(r) = "ok"
       THEN /\ StoreToken(r)
            /\ Await(t, DataSent(t)[1], "retry")
       ELSE /\ Abort(r)
            /\ Finish(t, TokenError(r))
    /\ UNCHANGED <<setup, now, ticks, op, args, statuses>>

\* The response of the password grant that follows a 401: store it, put the
\* new token in the header and resend, or raise.
ReauthReply(t, r) ==
    /\ pc[t] = "reauth_password"
    /\ NoneDone
    /\ IF TokenOutcome(r) = "ok"
       THEN /\ StoreToken(r)
            /\ Await(t, Resend(DataSent(t)[1], access_token'), "retry")
       ELSE /\ Abort(r)
            /\ Finish(t, TokenError(r))
    /\ UNCHANGED <<setup, now, ticks, op, args, statuses>>

\* Faulty variant: a resend answered 401 re-authenticates and resends again.
RetryReply_Again(t, r) ==
    /\ pc[t] = "retry"
    /\ NoneDone
    /\ statuses' = [statuses EXCEPT ![t] = Append(@, r.status)]
    /\ IF r.transport
       THEN Finish(t, RetryTransportError(r))
       ELSE IF IsRetryStatus(r.status)
            THEN Await(t, PasswordRequest, "reauth_password")
            ELSE Finish(t, FinalResult(r))
    /\ UNCHANGED <<store, data, setup, now, ticks, op, args>>

\* The response of the resent data request.
RetryReply(t, r) ==
    /\ pc[t] = "retry"
    /\ NoneDone
    /\ statuses' = [statuses EXCEPT ![t] = Append(@, r.status)]
    /\ IF r.transport
       THEN Finish(t, RetryTransportError(r))
       ELSE Finish(t, FinalResult(r))
    /\ UNCHANGED <<store, data, setup, now, ticks, op, args>>

\* Faulty variant: initialize() registers whatever client identifier is held.
Initialize_AlwaysRegister(t, cid, csec) ==
    Await(t, RegistrationRequest, "register")

\* initialize() up to its first await: registration when no client
\* identifier is held, else the password grant.
Initialize(t, cid, csec) ==
    IF cid = ""
    THEN Await(t, RegistrationRequest, "register")
    ELSE Await(t, PasswordPayload(cid, csec), "init_password")

\* A call of initialize() on the client.
InitializeStart(t) ==
    /\ pc[t] = "idle"
    /\ NoneDone
    /\ \A u \in Tasks : u < t => pc[u] # "idle"
    /\ op' = [op EXCEPT ![t] = "initialize"]
    /\ Initialize(t, client_id, client_secret)
    /\ UNCHANGED <<store, data, setup, now, ticks, args, statuses>>

\* A call of initialize() while no other call is in flight.
SequentialInitialize(t) ==
    /\ \A u \in Tasks : pc[u] = "idle"
    /\ InitializeStart(t)

\* OpenEMRClient() in get_client: a new instance with the configured
\* credentials and an empty Token Store becomes the singleton.
Construct ==
    /\ constructed' = constructed + 1
    /\ _client' = InstanceName(constructed + 1)
    /\ client_id' = OPENEMR_CLIENT_ID
    /\ client_secret' = OPENEMR_CLIENT_SECRET
    /\ access_token' = ""
    /\ refresh_token' = ""
    /\ token_expires_at' = 0
    /\ data' = NoData
    /\ settings' = NewSettings
    /\ _http' = "open"
    /\ UNCHANGED config

\* A call of get_client() up to its first await: with a singleton it returns
\* it at once; without, it makes one and is suspended in its initialize().
GetClientStart(t) ==
    /\ pc[t] = "idle"
    /\ NoneDone
    /\ \A u \in Tasks : u < t => pc[u] # "idle"
    /\ op' = [op EXCEPT ![t] = "get_client"]
    /\ IF HasClient
       THEN /\ Finish(t, Returned(_client))
            /\ UNCHANGED <<store, data, setup>>
       ELSE /\ Construct
            /\ Initialize(t, OPENEMR_CLIENT_ID, OPENEMR_CLIENT_SECRET)
    /\ UNCHANGED <<now, ticks, args, statuses>>

\* The registration response: store the client credentials and send
\* initialize()'s password grant, or raise.
RegisterReply(t, r) ==
    /\ pc[t] = "register"
    /\ NoneDone
    /\ IF RegistrationOutcome(r) = "ok"
       THEN /\ client_id' = r.data.client_id
            /\ client_secret' = Get(r.data, "client_secret", "")
            /\ Await(t, PasswordPayload(client_id', client_secret'),
                     "init_password")
       ELSE /\ UNCHANGED credentials
            /\ Finish(t, RegistrationError(r))
    /\ UNCHANGED <<store, data, config, singleton, facade, now, ticks, op,
                   args, statuses>>

\* What a finished initialize() hands back: nothing to its own caller, the
\* singleton to get_client's.
Initialized(t) ==
    IF op[t] = "get_client" THEN Returned(_client) ELSE Returned("None")

\* The response of initialize()'s password grant: store it and return, or
\* raise.
InitPasswordReply(t, r) ==
    /\ pc[t] = "init_password"
    /\ NoneDone
    /\ IF TokenOutcome(r) = "ok"
       THEN /\ StoreToken(r)
            /\ Finish(t, Initialized(t))
       ELSE /\ Abort(r)
            /\ Finish(t, TokenError(r))
    /\ UNCHANGED <<setup, now, ticks, op, args, statuses>>

\* Faulty variant: close() releases the pool only of a client that holds an
\* access token.
Close_WhenInitialized(t) ==
    /\ pc[t] = "idle"
    /\ NoneDone
    /\ \A u \in Tasks : u < t => pc[u] # "idle"
    /\ op' = [op EXCEPT ![t] = "close"]
    /\ _http' = IF access_token # "" THEN "closed" ELSE _http
    /\ Finish(t, Returned("None"))
    /\ UNCHANGED <<store, data, config, singleton, credentials, settings,
                   now, ticks, args, statuses>>

\* close(): the pool is closed, whatever the client holds.
Close(t) ==
    /\ pc[t] = "idle"
    /\ NoneDone
    /\ \A u \in Tasks : u < t => pc[u] # "idle"
    /\ op' = [op EXCEPT ![t] = "close"]
    /\ _http' = "closed"
    /\ Finish(t, Returned("None"))
    /\ UNCHANGED <<store, data, config, singleton, credentials, settings,
                   now, ticks, args, statuses>>

\* A call of close() while no other call is in flight.
SequentialClose(t) ==
    /\ \A u \in Tasks : pc[u] = "idle"
    /\ Close(t)

\* The caller has the call's result; the slot is free again.
Return(t) ==
    /\ pc[t] = "done"
    /\ pc' = [pc EXCEPT ![t] = "idle"]
    /\ op' = [op EXCEPT ![t] = "none"]
    /\ args' = [args EXCEPT ![t] = NoArgs]
    /\ sent' = [sent EXCEPT ![t] = <<>>]
    /\ statuses' = [statuses EXCEPT ![t] = <<>>]
    /\ result' = [result EXCEPT ![t] = NoResult]
    /\ UNCHANGED <<store, data, setup, now, ticks>>

\* The wall clock advances.
Tick(d) ==
    /\ NoneDone
    /\ ticks < MaxTicks
    /\ ticks' = ticks + 1
    /\ now' = now + d
    /\ UNCHANGED <<store, data, setup, pc, op, args, sent, statuses, result>>

\* The process with the given configuration loaded and n clients
\* constructed outside get_client, no call in flight.  The client fields
\* hold what __init__ gives them.
Loaded(cfg, n) ==
    /\ OPENEMR_CLIENT_ID = cfg[1]
    /\ OPENEMR_CLIENT_SECRET = cfg[2]
    /\ _client = "None"
    /\ constructed = n
    /\ client_id = cfg[1]
    /\ client_secret = cfg[2]
    /\ settings = NewSettings
    /\ _http = "open"
    /\ access_token = ""
    /\ refresh_token = ""
    /\ token_expires_at = 0
    /\ data = NoData
    /\ now = StartTime
    /\ ticks = 0
    /\ pc = [t \in Tasks |-> "idle"]
    /\ op = [t \in Tasks |-> "none"]
    /\ args = [t \in Tasks |-> NoArgs]
    /\ sent = [t \in Tasks |-> <<>>]
    /\ statuses = [t \in Tasks |-> <<>>]
    /\ result = [t \in Tasks |-> NoResult]
    /\ tool = "none"
    /\ argv = <<>>
    /\ tpc = "idle"
    /\ searches = <<>>
    /\ results = "unset"
    /\ outcome = NoOutcome

\* The client of a configured deployment as constructed.
Init == Loaded(<<"app", "s3cret">>, 1)

\* Calls made one after another while the clock advances.
Next ==
    \/ \E t \in Tasks, m \in Methods : SequentialStart(t, m, Plain(m))
          /\ UNCHANGED tools
    \/ \E t \in Tasks, r \in TokenResponses : RefreshReply(t, r)
          /\ UNCHANGED tools
    \/ \E t \in Tasks, r \in TokenResponses : PasswordReply(t, r)
          /\ UNCHANGED tools
    \/ \E t \in Tasks, r \in DataResponses : DataReply(t, r)
          /\ UNCHANGED tools
    \/ \E t \in Tasks, r \in TokenResponses : ReauthReply(t, r)
          /\ UNCHANGED tools
    \/ \E t \in Tasks, r \in DataResponses : RetryReply(t, r)
          /\ UNCHANGED tools
    \/ \E t \in Tasks : Return(t)
          /\ UNCHANGED tools
    \/ \E d \in TickSteps : Tick(d)
          /\ UNCHANGED tools

Spec == Init /\ [][Next]_vars

\* The response a suspended call is waiting for arrives, whatever it is.
Reply(t) ==
    /\ \/ \E r \in TokenResponses : RefreshReply(t, r)
       \/ \E r \in TokenResponses : PasswordReply(t, r)
       \/ \E r \in DataResponses : DataReply(t, r)
       \/ \E r \in TokenResponses : ReauthReply(t, r)
       \/ \E r \in DataResponses : RetryReply(t, r)
    /\ UNCHANGED tools

\* The same calls when every HTTP call completes: the pool's timeout makes
\* each request end with a response or a transport error.
SpecCompleting == Spec /\ \A t \in Tasks : WF_vars(Reply(t))

\* Calls that overlap on the event loop: a call may start while another is
\* suspended at any of its awaits.  The clock stands still: tokens are stale
\* or not by their lifetimes.
NextConcurrent ==
    \/ \E t \in Tasks, m \in Methods : Start(t, m, Plain(m))
          /\ UNCHANGED tools
    \/ \E t \in Tasks, r \in TokenResponsesNoClock : RefreshReply(t, r)
          /\ UNCHANGED tools
    \/ \E t \in Tasks, r \in TokenResponsesNoClock : PasswordReply(t, r)
          /\ UNCHANGED tools
    \/ \E t \in Tasks, r \in DataResponses : DataReply(t, r)
          /\ UNCHANGED tools
    \/ \E t \in Tasks, r \in TokenResponsesNoClock : ReauthReply(t, r)
          /\ UNCHANGED tools
    \/ \E t \in Tasks, r \in DataResponses : RetryReply(t, r)
          /\ UNCHANGED tools
    \/ \E t \in Tasks : Return(t)
          /\ UNCHANGED tools

SpecConcurrent == Init /\ [][NextConcurrent]_vars

\* A client constructed with either configuration, then initialize(), get()
\* and post() called one after another.
InitLifecycle == \E cfg \in Configs : Loaded(cfg, 1)

NextLifecycle ==
    \/ \E t \in Tasks : SequentialInitialize(t)
          /\ UNCHANGED tools
    \/ \E t \in Tasks, r \in RegistrationResponses : RegisterReply(t, r)
          /\ UNCHANGED tools
    \/ \E t \in Tasks, r \in TokenResponses : InitPasswordReply(t, r)
          /\ UNCHANGED tools
    \/ \E t \in Tasks, m \in Methods : SequentialStart(t, m, Plain(m))
          /\ UNCHANGED tools
    \/ \E t \in Tasks, r \in TokenResponses : RefreshReply(t, r)
          /\ UNCHANGED tools
    \/ \E t \in Tasks, r \in TokenResponses : PasswordReply(t, r)
          /\ UNCHANGED tools
    \/ \E t \in Tasks, r \in DataResponses : DataReply(t, r)
          /\ UNCHANGED tools
    \/ \E t \in Tasks, r \in TokenResponses : ReauthReply(t, r)
          /\ UNCHANGED tools
    \/ \E t \in Tasks, r \in DataResponses : RetryReply(t, r)
          /\ UNCHANGED tools
    \/ \E t \in Tasks : Return(t)
          /\ UNCHANGED tools

SpecLifecycle == InitLifecycle /\ [][NextLifecycle]_vars

\* The same calls and close(), one after another.
NextClose ==
    \/ NextLifecycle
    \/ \E t \in Tasks : SequentialClose(t)
          /\ UNCHANGED tools

SpecClose == InitLifecycle /\ [][NextClose]_vars

\* The application: no client exists when the process starts, and tasks call
\* get_client(), overlapping on the event loop.
InitSingleton == \E cfg \in Configs : Loaded(cfg, 0)

NextSingleton ==
    \/ \E t \in Tasks : GetClientStart(t)
          /\ UNCHANGED tools
    \/ \E t \in Tasks, r \in RegistrationResponses : RegisterReply(t, r)
          /\ UNCHANGED tools
    \/ \E t \in Tasks, r \in TokenResponses : InitPasswordReply(t, r)
          /\ UNCHANGED tools
    \/ \E t \in Tasks : Return(t)
          /\ UNCHANGED tools

SpecSingleton == InitSingleton /\ [][NextSingleton]_vars

\* A server that is healthy and honours only the access token it issued
\* last.  The token endpoint answers every grant with a new access token, a
\* refresh token and an hour's lifetime; a response is handled in the step
\* in which the server makes it, so the token issued last is the one the
\* Token Store holds.
OtherToken(at) == IF at = "t1" THEN "t2" ELSE "t1"

IssuedResponse ==
    [transport |-> FALSE, status |-> 200, text |-> "{token}", json |-> TRUE,
     data |-> TokenDict(OtherToken(access_token), "r1", 3600)]

\* The data endpoint answers a request that carries the token issued last
\* with 200 and a JSON body, and any other with 401.
ServedResponse(q) ==
    IF q.auth = access_token
    THEN [transport |-> FALSE, status |-> 200, text |-> "[]", json |-> TRUE,
          value |-> "empty list"]
    ELSE [transport |-> FALSE, status |-> 401, text |-> "Token expired",
          json |-> FALSE, value |-> "none"]

\* The request a suspended call is waiting on.
LastSent(t) == sent[t][Len(sent[t])]

\* Overlapping get/post calls against that server, while the clock advances.
NextHealthy ==
    \/ \E t \in Tasks, m \in Methods :
          \E a \in Arguments(m) : Start(t, m, a)
          /\ UNCHANGED tools
    \/ \E t \in Tasks : RefreshReply(t, IssuedResponse)
          /\ UNCHANGED tools
    \/ \E t \in Tasks : PasswordReply(t, IssuedResponse)
          /\ UNCHANGED tools
    \/ \E t \in Tasks :
          pc[t] = "data" /\ DataReply(t, ServedResponse(LastSent(t)))
          /\ UNCHANGED tools
    \/ \E t \in Tasks : ReauthReply(t, IssuedResponse)
          /\ UNCHANGED tools
    \/ \E t \in Tasks :
          pc[t] = "retry" /\ RetryReply(t, ServedResponse(LastSent(t)))
          /\ UNCHANGED tools
    \/ \E t \in Tasks : Return(t)
          /\ UNCHANGED tools
    \/ \E d \in TickSteps : Tick(d)
          /\ UNCHANGED tools

SpecHealthy == Init /\ [][NextHealthy]_vars

\* ------------------------------------------------------------------ claims

\* C1 as stated, over the calls that end as the interface documents (a
\* return or one of the two error kinds): a call whose first data response
\* is 401 sends exactly one password-grant request and then exactly one
\* retried data request, which
\* carries the newly issued access token; the retry's response is final: a
\* 2xx one returns its parsed body, a second 401 is an API error of status
\* 401, and nothing more is sent.
C1_AsStated ==
    \A t \in Tasks :
        ( /\ pc[t] = "done"
          /\ statuses[t] # <<>>
          /\ statuses[t][1] = 401
          /\ result[t].kind \in
                {"return", "OpenEMRAuthError", "OpenEMRAPIError"} ) =>
            /\ Len(GrantsSent(t, "password")) - Len(BeforeData(t)) = 1
            /\ Len(DataSent(t)) = 2
            /\ Len(statuses[t]) = 2
            /\ statuses[t][2] \in 200..299 => result[t].kind = "return"
            /\ statuses[t][2] = 401 =>
                  /\ result[t].kind = "OpenEMRAPIError"
                  /\ result[t].status_code = 401

\* C1 (amended): after a first data response of 401 the call sends exactly
\* one password-grant request; if its response is a usable token the call
\* sends exactly one retried data request with that token in the header,
\* otherwise the call fails without a retried request (with the
\* authentication error when the token request failed).  The retry's response
\* is final: a 2xx one with a JSON body returns the parsed body, a second 401
\* is an API error of status 401, and nothing more is sent or stored.
C1_RetryOnce ==
    /\ [](\A t \in Tasks :
            (statuses[t] # <<>> /\ statuses[t][1] = 401) =>
                /\ AfterData(t) \in
                      {<<PasswordRequest>>,
                       <<PasswordRequest, DataSent(t)[Len(DataSent(t))]>>}
                /\ Len(DataSent(t)) = Len(AfterData(t))
                /\ pc[t] \in {"reauth_password", "retry", "done"}
                /\ (pc[t] = "done" /\ Len(DataSent(t)) = 1) =>
                      result[t].kind \notin {"return", "OpenEMRAPIError"})
    /\ [][\A t \in Tasks :
            /\ \A r \in DataResponses :
                  (pc[t] = "data" /\ r.status = 401 /\ DataReply(t, r)) =>
                      /\ sent'[t] = Append(sent[t], PasswordRequest)
                      /\ store' = store
            /\ \A r \in TokenResponses :
                  (pc[t] = "reauth_password" /\ ReauthReply(t, r)) =>
                      IF Usable(r)
                      THEN /\ sent'[t] =
                                Append(sent[t],
                                       DataRequest(op[t], args[t], r.data.access_token))
                           /\ pc'[t] = "retry"
                      ELSE /\ sent'[t] = sent[t]
                           /\ pc'[t] = "done"
                           /\ Failed(r) =>
                                 /\ store' = store
                                 /\ result'[t] =
                                      Exception("OpenEMRAuthError",
                                                r.status, r.text)
            /\ \A r \in DataResponses :
                  (pc[t] = "retry" /\ RetryReply(t, r)) =>
                      /\ pc'[t] = "done"
                      /\ sent' = sent
                      /\ store' = store
                      /\ (r.status \in 200..299 /\ r.json) =>
                            result'[t] = Returned(r.value)
                      /\ r.status = 401 =>
                            result'[t] =
                              Exception("OpenEMRAPIError", 401, r.text)]_vars

\* A call has resent its request with a newly issued token that differs from
\* the first attempt's, and the resend was answered 401 again.
C1_Witness ==
    \E t \in Tasks :
        /\ pc[t] = "done"
        /\ statuses[t] = <<401, 401>>
        /\ DataSent(t)[1].auth # DataSent(t)[2].auth
        /\ result[t].kind = "OpenEMRAPIError"

\* C2: in every execution, calls overlapping or not, a call sends at most two
\* data requests, and a second one only after a first response of status 401;
\* after a first response of any other status, or a transport failure, the
\* call is over and has sent one data request.
C2_AtMostOneRetry ==
    \A t \in Tasks :
        /\ Len(DataSent(t)) <= 2
        /\ Len(statuses[t]) <= Len(DataSent(t))
        /\ Len(DataSent(t)) = 2 =>
              Len(statuses[t]) >= 1 /\ statuses[t][1] = 401
        /\ (Len(statuses[t]) >= 1 /\ statuses[t][1] # 401) =>
              Len(DataSent(t)) = 1 /\ pc[t] = "done"

\* A call has resent its request after a 401 while another call is in flight.
C2_Witness ==
    \E t, u \in Tasks :
        /\ t # u
        /\ Len(DataSent(t)) = 2
        /\ statuses[t][1] = 401
        /\ Running(u)

\* C3: a data response of status 500, or of any status from 400 on other
\* than 401, ends the call with an API error of exactly that status and
\* body; the call sends nothing more and the step leaves the Token Store as
\* it was.
C3_ErrorStatusIsFinal ==
    [][\A t \in Tasks, r \in DataResponses :
          ( /\ DataReply(t, r) \/ RetryReply(t, r)
            /\ ~r.transport
            /\ r.status >= 400
            /\ r.status # 401 )
          => /\ pc'[t] = "done"
             /\ result'[t] = Exception("OpenEMRAPIError", r.status, r.text)
             /\ sent' = sent
             /\ store' = store]_vars

\* A call has failed with the 500 of its only data request.
C3_Witness ==
    \E t \in Tasks :
        /\ pc[t] = "done"
        /\ statuses[t] = <<500>>
        /\ result[t] =
              Exception("OpenEMRAPIError", 500, "Internal Server Error")

\* The call ended with the response of its last data request.
EndedOnData(t) ==
    /\ pc[t] = "done"
    /\ sent[t][Len(sent[t])].kind = "data"
    /\ Len(statuses[t]) = Len(DataSent(t))
FinalStatus(t) == statuses[t][Len(statuses[t])]

\* C4: a call returns a parsed body only if its final data response has a
\* 2xx status; every final response of another status gives an API error of
\* that status.
C4_OnlySuccessReturns ==
    \A t \in Tasks :
        EndedOnData(t) =>
            /\ result[t].kind = "return" => FinalStatus(t) \in 200..299
            /\ (FinalStatus(t) # 0 /\ FinalStatus(t) \notin 200..299) =>
                  /\ result[t].kind = "OpenEMRAPIError"
                  /\ result[t].status_code = FinalStatus(t)

\* C5: a transport failure of a data request, the first or the resent one,
\* reaches the caller as an API error of status 0, and the call is over.
C5_TransportFailureIsApiError ==
    \A t \in Tasks :
        (EndedOnData(t) /\ FinalStatus(t) = 0) =>
            /\ result[t].kind = "OpenEMRAPIError"
            /\ result[t].status_code = 0

\* C6: a call that fails, fails with the authentication error or the API
\* error, whatever the server does.
C6_TwoErrorKinds ==
    \A t \in Tasks :
        (pc[t] = "done" /\ result[t].kind # "return") =>
            result[t].kind \in {"OpenEMRAuthError", "OpenEMRAPIError"}

\* C7: a failed token request ends the call with the authentication error,
\* never the API error; a failed data request ends it with the API error,
\* never the authentication error.
C7_KindsNotMasked ==
    [][\A t \in Tasks :
          /\ \A r \in TokenResponses :
                ( /\ \/ RefreshReply(t, r)
                     \/ PasswordReply(t, r)
                     \/ ReauthReply(t, r)
                  /\ Failed(r)
                  /\ pc'[t] = "done" )
                => result'[t].kind = "OpenEMRAuthError"
          /\ \A r \in DataResponses :
                ( /\ DataReply(t, r) \/ RetryReply(t, r)
                  /\ r.transport \/ r.status >= 400
                  /\ pc'[t] = "done" )
                => result'[t].kind = "OpenEMRAPIError"]_vars

\* C8: Ensure-Token called while no access token is held sends exactly one
\* password-grant request and no refresh-grant request: the call's first
\* request is the password grant, and nothing but the data request follows
\* it.
C8_NoTokenPasswordGrant ==
    /\ [][\A t \in Tasks, m \in Methods :
            (Start(t, m, Plain(m)) /\ access_token = "") =>
                /\ sent'[t] = <<PasswordRequest>>
                /\ pc'[t] = "ensure_password"]_vars
    /\ [](\A t \in Tasks :
            (sent[t] # <<>> /\ pc[t] = "ensure_password") =>
                sent[t] = <<PasswordRequest>>)
    /\ [][\A t \in Tasks, r \in TokenResponses :
            (PasswordReply(t, r) /\ pc[t] = "ensure_password") =>
                /\ GrantsSent(t, "password")' = <<PasswordRequest>>
                /\ GrantsSent(t, "refresh_token")' = <<>>
                /\ pc'[t] \in {"data", "done"}]_vars

\* A call is waiting for the password grant it sent because no access token
\* was held.
C8_Witness ==
    \E t \in Tasks :
        /\ pc[t] = "ensure_password"
        /\ access_token = ""
        /\ sent[t] = <<PasswordRequest>>

\* C9: Ensure-Token called with the stored expiry passed and a refresh token
\* held sends exactly one refresh-grant request, with that refresh token.  If
\* it fails (no answer or an error status) exactly one password-grant
\* request follows, and when that one succeeds the stored access token is
\* its response's.  If the refresh succeeds no password-grant request is
\* sent and the stored access token is the refresh response's.
C9_RefreshThenFallback ==
    /\ [][\A t \in Tasks, m \in Methods :
            ( /\ Start(t, m, Plain(m))
              /\ access_token # ""
              /\ now >= token_expires_at
              /\ refresh_token # "" ) =>
                /\ sent'[t] = <<RefreshRequest(refresh_token)>>
                /\ pc'[t] = "refresh"]_vars
    /\ [](\A t \in Tasks :
            /\ Len(GrantsSent(t, "refresh_token")) <= 1
            /\ Len(SelectSeq(BeforeData(t),
                             LAMBDA q : q.grant_type = "password")) <= 1
            /\ pc[t] = "refresh" => Len(sent[t]) = 1
            /\ pc[t] = "fallback_password" =>
                  /\ Len(sent[t]) = 2
                  /\ sent[t][1].grant_type = "refresh_token"
                  /\ sent[t][2] = PasswordRequest)
    /\ [][\A t \in Tasks, r \in TokenResponses :
            /\ (RefreshReply(t, r) /\ Failed(r)) =>
                  /\ sent'[t] = Append(sent[t], PasswordRequest)
                  /\ pc'[t] = "fallback_password"
                  /\ store' = store
            /\ (RefreshReply(t, r) /\ Usable(r)) =>
                  /\ access_token' = r.data.access_token
                  /\ sent'[t] =
                        Append(sent[t], DataRequest(op[t], args[t], r.data.access_token))
                  /\ pc'[t] = "data"
            /\ (PasswordReply(t, r) /\ pc[t] = "fallback_password"
                  /\ Usable(r)) =>
                  /\ access_token' = r.data.access_token
                  /\ sent'[t] =
                        Append(sent[t], DataRequest(op[t], args[t], r.data.access_token))
                  /\ pc'[t] = "data"]_vars

\* After a failed refresh the password grant succeeded with another access
\* token than the stale one, and the data request carries it.
C9_Witness ==
    \E t \in Tasks :
        /\ pc[t] = "data"
        /\ Len(sent[t]) = 3
        /\ sent[t][1] = RefreshRequest("r1")
        /\ sent[t][2] = PasswordRequest
        /\ sent[t][3] = DataRequest(op[t], args[t], access_token)
        /\ ticks > 0

\* C10: when the refresh grant and the password-grant fallback both fail,
\* the call fails with the authentication error of the password-grant
\* attempt and has sent no data request.
C10_BothFail ==
    [][\A t \in Tasks, r \in TokenResponses :
          (PasswordReply(t, r) /\ pc[t] = "fallback_password" /\ Failed(r)) =>
              /\ pc'[t] = "done"
              /\ result'[t] = Exception("OpenEMRAuthError", r.status, r.text)
              /\ sent'[t] = sent[t]
              /\ DataSent(t) = <<>>
              /\ store' = store]_vars

\* Both grants failed: the call is over with the authentication error and
\* only the two token requests were sent.
C10_Witness ==
    \E t \in Tasks :
        /\ pc[t] = "done"
        /\ Len(sent[t]) = 2
        /\ sent[t][1].grant_type = "refresh_token"
        /\ sent[t][2] = PasswordRequest
        /\ result[t] = Exception("OpenEMRAuthError", 500, "invalid_grant")

\* C11: a get/post call renews the token if and only if no access token is
\* held or the clock is at or past the stored expiry instant, by the refresh
\* grant when a refresh token is held and by the password grant otherwise;
\* with an access token held and the clock strictly before the expiry, the
\* call's first request is the data request, with the held token.  A call
\* made 3601 seconds after a token of lifetime 3600 was stored, with a
\* refresh token held, sends the refresh request first, and no call sends
\* more than one refresh request before its data request.
C11_RenewIffStale ==
    /\ [][\A t \in Tasks, m \in Methods :
            Start(t, m, Plain(m)) =>
                IF access_token = "" \/ now >= token_expires_at
                THEN IF refresh_token # ""
                     THEN /\ sent'[t] = <<RefreshRequest(refresh_token)>>
                          /\ pc'[t] = "refresh"
                     ELSE /\ sent'[t] = <<PasswordRequest>>
                          /\ pc'[t] = "ensure_password"
                ELSE /\ sent'[t] = <<DataRequest(m, Plain(m), access_token)>>
                     /\ pc'[t] = "data"]_vars
    /\ [][\A t \in Tasks, m \in Methods :
            ( /\ Start(t, m, Plain(m))
              /\ access_token # ""
              /\ refresh_token # ""
              /\ Get(data, "expires_in", -1) = 3600
              /\ now = (token_expires_at + ExpiryBuffer - 3600) + 3601 ) =>
                sent'[t] = <<RefreshRequest(refresh_token)>>]_vars
    /\ [](\A t \in Tasks :
            /\ Len(SelectSeq(BeforeData(t),
                             LAMBDA q : q.grant_type = "refresh_token")) <= 1
            /\ Len(SelectSeq(AfterData(t),
                             LAMBDA q : q.grant_type = "refresh_token")) = 0
            /\ (sent[t] # <<>> /\ sent[t][1].kind = "data") =>
                  BeforeData(t) = <<>>)

\* A call made 3601 seconds after a token of lifetime 3600 was stored is
\* waiting for the one refresh request it sent.
C11_Witness ==
    \E t \in Tasks :
        /\ now = StartTime + 3601
        /\ token_expires_at = StartTime + 3600 - ExpiryBuffer
        /\ Get(data, "expires_in", -1) = 3600
        /\ pc[t] = "refresh"
        /\ sent[t] = <<RefreshRequest("r1")>>

\* A step in which _token_request stores the response r of task t's token
\* request, whichever flow sent it.
Stores(t, r) ==
    /\ \/ RefreshReply(t, r)
       \/ PasswordReply(t, r)
       \/ ReauthReply(t, r)
       \/ InitPasswordReply(t, r)
    /\ Usable(r)

\* C12: a successful token response with expires_in = N processed at time
\* T leaves the stored expiry instant at T + N - 60; with N = 0, or
\* expires_in absent, the lifetime used is 3600 and the expiry T + 3540.
C12_ExpiryFromLifetime ==
    [][\A t \in Tasks, r \in TokenResponses :
          Stores(t, r) =>
              IF "expires_in" \notin r.data.keys \/ r.data.expires_in = 0
              THEN token_expires_at' = now + 3540
              ELSE token_expires_at' = now + r.data.expires_in - 60]_vars

\* C13: after a successful token response that omits refresh_token the
\* stored refresh token is the one held before; after one that includes it,
\* the stored refresh token is the response's.  Either way the stored access
\* token is the response's and the stored expiry is computed from the
\* response's lifetime (the default when it has none).
C13_RefreshTokenRetained ==
    [][\A t \in Tasks, r \in TokenResponses :
          Stores(t, r) =>
              /\ IF "refresh_token" \in r.data.keys
                 THEN refresh_token' = r.data.refresh_token
                 ELSE refresh_token' = refresh_token
              /\ access_token' = r.data.access_token
              /\ IF "expires_in" \in r.data.keys
                 THEN token_expires_at' = now + r.data.expires_in - 60
                 ELSE token_expires_at' = now + 3600 - 60]_vars

\* The refresh grant was answered with a new access token and no
\* refresh_token: the store holds the new access token and still the refresh
\* token the request was made with.
C13_Witness ==
    \E t \in Tasks :
        /\ sent[t] = <<RefreshRequest("r1"), DataRequest(op[t], args[t], "t2")>>
        /\ "refresh_token" \notin data.keys
        /\ data.access_token = "t2"
        /\ access_token = "t2"
        /\ refresh_token = "r1"

\* C14: initialize() with an empty client identifier sends the registration
\* request first and the password-grant request right after the registration
\* response is accepted (a failed registration ends the call); with a
\* non-empty client identifier its one request is the password grant.  The
\* password grant is sent whatever the Token Store holds, and its response
\* ends the call.
C14_RegisterThenIssue ==
    /\ [][\A t \in Tasks :
            InitializeStart(t) =>
                IF client_id = ""
                THEN sent'[t] = <<RegistrationRequest>>
                ELSE sent'[t] =
                       <<PasswordPayload(client_id, client_secret)>>]_vars
    /\ [][\A t \in Tasks, r \in RegistrationResponses :
            RegisterReply(t, r) =>
                IF ~Failed(r) /\ r.json /\ "client_id" \in r.data.keys
                THEN /\ Len(sent'[t]) = 2
                     /\ sent'[t][1] = RegistrationRequest
                     /\ sent'[t][2].grant_type = "password"
                ELSE sent'[t] = sent[t] /\ pc'[t] = "done"]_vars
    /\ [][\A t \in Tasks, r \in TokenResponses :
            InitPasswordReply(t, r) =>
                sent'[t] = sent[t] /\ pc'[t] = "done"]_vars
    /\ [](\A t \in Tasks :
            op[t] = "initialize" =>
                /\ Len(GrantsSent(t, "password")) <= 1
                /\ Len(GrantsSent(t, "refresh_token")) = 0
                /\ DataSent(t) = <<>>
                /\ (pc[t] = "done" /\ result[t].kind = "return") =>
                      Len(GrantsSent(t, "password")) = 1)

\* initialize() was called with no client identifier while the Token Store
\* held an unexpired access token: it has registered and is waiting for its
\* password grant.
C14_Witness ==
    \E t \in Tasks :
        /\ op[t] = "initialize"
        /\ pc[t] = "init_password"
        /\ sent[t] = <<RegistrationRequest, PasswordPayload("X", "Y")>>
        /\ access_token # ""
        /\ now < token_expires_at

\* C15: a registration answered {client_id: X, client_secret: Y} stores X
\* and Y, and the password grant that follows in initialize() carries them;
\* once a client identifier is held the credentials never change; and every
\* token request sent, password or refresh grant, in initialize(),
\* Ensure-Token and after a 401, carries the credentials held when it is
\* sent.  So every token request after the registration carries X and Y.
C15_RegisteredCredentialsUsed ==
    /\ [][\A t \in Tasks, r \in RegistrationResponses :
            ( /\ RegisterReply(t, r)
              /\ ~Failed(r)
              /\ r.json
              /\ {"client_id", "client_secret"} \subseteq r.data.keys ) =>
                /\ client_id' = r.data.client_id
                /\ client_secret' = r.data.client_secret
                /\ sent'[t][Len(sent'[t])] =
                      PasswordPayload(r.data.client_id, r.data.client_secret)
          ]_vars
    /\ [][client_id # "" => credentials' = credentials]_vars
    /\ [][\A t \in Tasks :
            ( /\ Len(sent'[t]) = Len(sent[t]) + 1
              /\ sent'[t][Len(sent'[t])].kind = "token" ) =>
                /\ sent'[t][Len(sent'[t])].client_id = client_id'
                /\ sent'[t][Len(sent'[t])].client_secret = client_secret'
          ]_vars

\* After a registration answered X and Y, a call has renewed its token by a
\* refresh grant carrying X and Y, met a 401, and is waiting for a password
\* grant carrying X and Y.
C15_Witness ==
    \E t \in Tasks :
        /\ OPENEMR_CLIENT_ID = ""
        /\ client_id = "X"
        /\ client_secret = "Y"
        /\ pc[t] = "reauth_password"
        /\ Len(sent[t]) = 3
        /\ sent[t][1].grant_type = "refresh_token"
        /\ sent[t][1].client_id = "X"
        /\ sent[t][1].client_secret = "Y"
        /\ sent[t][3] = PasswordPayload("X", "Y")

\* C16: a registration that meets a transport failure or a non-success
\* status ends initialize() with the authentication error, which carries the
\* status and the body of the response when there is one (the transport
\* error's text otherwise); the client identifier and the client secret are
\* as they were, and nothing more is sent.
C16_RegistrationFailure ==
    [][\A t \in Tasks, r \in RegistrationResponses :
          ( /\ RegisterReply(t, r)
            /\ r.transport \/ r.status \notin 200..299 ) =>
              /\ pc'[t] = "done"
              /\ result'[t].kind = "OpenEMRAuthError"
              /\ result'[t].detail = r.text
              /\ ~r.transport => result'[t].status_code = r.status
              /\ client_id' = client_id
              /\ client_secret' = client_secret
              /\ sent'[t] = sent[t]
              /\ sent[t][Len(sent[t])] = RegistrationRequest]_vars

\* initialize() has failed with the authentication error of a registration
\* refused with status 400, and no client identifier is held.
C16_Witness ==
    \E t \in Tasks :
        /\ pc[t] = "done"
        /\ op[t] = "initialize"
        /\ sent[t] = <<RegistrationRequest>>
        /\ result[t] =
              Exception("OpenEMRAuthError", 400, "invalid_client_metadata")
        /\ client_id = ""
        /\ client_secret = ""

\* C17: a password-grant request (initialize()'s, Ensure-Token's, the
\* fallback's or the one after a 401) that meets a transport failure or a
\* non-success status ends the call with the authentication error, which
\* carries the status and the body of the response when there is one (the
\* transport error's text otherwise).
C17_PasswordGrantFailure ==
    [][\A t \in Tasks, r \in TokenResponses :
          ( /\ \/ PasswordReply(t, r)
               \/ ReauthReply(t, r)
               \/ InitPasswordReply(t, r)
            /\ r.transport \/ r.status \notin 200..299 ) =>
              /\ sent[t][Len(sent[t])].grant_type = "password"
              /\ pc'[t] = "done"
              /\ result'[t].kind = "OpenEMRAuthError"
              /\ result'[t].detail = r.text
              /\ ~r.transport => result'[t].status_code = r.status]_vars

\* A call's first password grant was refused with status 401 and the call
\* has failed with the authentication error carrying that status and body.
C17_Witness ==
    \E t \in Tasks :
        /\ pc[t] = "done"
        /\ Len(sent[t]) = 1
        /\ sent[t][1].grant_type = "password"
        /\ result[t] = Exception("OpenEMRAuthError", 401, "invalid_grant")

\* C18: whatever the interleaving of get_client calls, also when one starts
\* while the first call's initialize() is suspended or after it failed, at
\* most one client is ever constructed, the singleton once set is never
\* replaced, and every call that returns, returns that one instance.
C18_OneInstance ==
    /\ [](constructed <= 1)
    /\ [][_client # "None" => _client' = _client]_vars
    /\ [](\A t \in Tasks :
            ( /\ op[t] = "get_client"
              /\ pc[t] = "done"
              /\ result[t].kind = "return" ) =>
                /\ result[t].value = InstanceName(1)
                /\ result[t].value = _client)

\* A second call of get_client has returned the instance while the first
\* call, which constructed it, is still suspended in initialize().
C18_Witness ==
    \E t, u \in Tasks :
        /\ op[t] = "get_client"
        /\ pc[t] \in {"register", "init_password"}
        /\ op[u] = "get_client"
        /\ pc[u] = "done"
        /\ result[u] = Returned("client1")
        /\ constructed = 1

\* C19: when get_client returns a client to a caller, initialize() has
\* completed successfully on it: it holds an access token and a client
\* identifier, and no call is still inside its initialize().
C19_ReturnedClientInitialized ==
    \A t \in Tasks :
        ( /\ op[t] = "get_client"
          /\ pc[t] = "done"
          /\ result[t].kind = "return" ) =>
            /\ access_token # ""
            /\ client_id # ""
            /\ \A u \in Tasks : pc[u] \notin {"register", "init_password"}

\* C20: under every interleaving of overlapping get/post calls the Token
\* Store is never seen half updated.  A step that sends a token request
\* writes no token field; the only steps that write one are those in which
\* a token response is stored, and they write all three fields from that
\* response; so at every point the access token and the expiry held (and the
\* refresh token, when the response had one) are those of one token
\* response, the last one stored, and the bearer header of a data request is
\* the access token held when it is sent.
C20_TokenStoreAtomic ==
    /\ [](access_token # "" =>
            /\ access_token = data.access_token
            /\ data.number
            /\ token_expires_at =
                  now + (IF "expires_in" \in data.keys
                         THEN data.expires_in ELSE 3600) - 60
            /\ "refresh_token" \in data.keys =>
                  refresh_token = data.refresh_token)
    /\ [][store' # store =>
            \E t \in Tasks, r \in TokenResponses :
                /\ Stores(t, r)
                /\ access_token' = r.data.access_token
                /\ token_expires_at' =
                      now + (IF "expires_in" \in r.data.keys
                             THEN r.data.expires_in ELSE 3600) - 60
                /\ refresh_token' =
                      IF "refresh_token" \in r.data.keys
                      THEN r.data.refresh_token ELSE refresh_token]_vars
    /\ [][\A t \in Tasks :
            Len(sent'[t]) = Len(sent[t]) + 1 =>
                IF sent'[t][Len(sent'[t])].kind = "data"
                THEN sent'[t][Len(sent'[t])].auth = access_token'
                ELSE store' = store]_vars


\* C21: two overlapping get/post calls that both find the token stale each
\* renew it, the Token Store ends with the response stored last, and with
\* valid credentials and healthy endpoints (the server honouring only the
\* access token it issued last) no call fails: every call that ends returns
\* the parsed body.
C21_BenignRace ==
    \A t \in Tasks :
        pc[t] = "done" => result[t].kind = "return"


Initializing(u) ==
    /\ op[u] = "get_client"
    /\ pc[u] \in {"register", "init_password"}

\* C23 as stated: a call of get_client that starts while the first caller
\* is still suspended in initialize() sees no singleton and constructs a
\* client of its own, so that two clients (and two pools) exist.
C23_AsStated ==
    [][\A t \in Tasks :
          (GetClientStart(t) /\ \E u \in Tasks : Initializing(u)) =>
              /\ constructed' = constructed + 1
              /\ Initializing(t)']_vars

\* C23 (amended): get_client assigns the singleton before it awaits
\* initialize(), so a call that starts while the first caller is suspended
\* in initialize() sees the singleton set: it constructs nothing, sends
\* nothing and returns the first caller's instance at once.  One client and
\* one pool exist, and at most one call is ever inside initialize().
C23_SecondCallerShares ==
    /\ [][\A t \in Tasks :
            (GetClientStart(t) /\ \E u \in Tasks : Initializing(u)) =>
                /\ constructed' = constructed
                /\ _client' = _client
                /\ _http' = _http
                /\ sent'[t] = <<>>
                /\ pc'[t] = "done"
                /\ result'[t] = Returned(InstanceName(1))]_vars
    /\ [](\A t, u \in Tasks :
            (Initializing(t) /\ Initializing(u)) => t = u)
    /\ []((\E u \in Tasks : Initializing(u)) => constructed = 1)

\* The second caller has been handed the first caller's client, which has
\* registered but holds no access token yet: the first caller is still
\* waiting for its password grant.
C23_Witness ==
    \E t, u \in Tasks :
        /\ Initializing(u)
        /\ pc[u] = "init_password"
        /\ Len(sent[u]) = 2
        /\ op[t] = "get_client"
        /\ pc[t] = "done"
        /\ sent[t] = <<>>
        /\ result[t] = Returned(_client)
        /\ access_token = ""


\* C24: over any number of get_client calls, overlapping or not,
\* initialize() is started at most once: only by the call that finds no
\* singleton, which is the call that constructs the one client.  Every call
\* that finds the singleton set, so every call made after a first one has
\* returned, sends no registration and no token request and returns at
\* once; registration and token requests are sent by one call only.
C24_InitializeOnce ==
    /\ [][\A t \in Tasks :
            GetClientStart(t) =>
                IF _client = "None"
                THEN /\ constructed = 0
                     /\ constructed' = 1
                     /\ Len(sent'[t]) = 1
                ELSE /\ constructed' = constructed
                     /\ sent'[t] = <<>>
                     /\ pc'[t] = "done"
                     /\ store' = store
                     /\ credentials' = credentials]_vars
    /\ [](\A t, u \in Tasks : (sent[t] # <<>> /\ sent[u] # <<>>) => t = u)
    /\ [][\A t \in Tasks :
            (sent[t] = <<>> /\ sent'[t] # <<>>) => _client = "None"]_vars
    /\ [](\A t \in Tasks :
            /\ Len(SelectSeq(sent[t], LAMBDA q : q.kind = "registration")) <= 1
            /\ Len(GrantsSent(t, "password")) <= 1
            /\ Len(GrantsSent(t, "refresh_token")) = 0)

\* After the first get_client call has returned the initialized client and
\* left, a later call has returned the same client without sending anything.
C24_Witness ==
    \E t \in Tasks :
        /\ \A u \in Tasks : u # t => pc[u] = "idle"
        /\ op[t] = "get_client"
        /\ pc[t] = "done"
        /\ sent[t] = <<>>
        /\ result[t] = Returned(_client)
        /\ access_token # ""


\* C25: the request that follows a 401 is the password grant, also when a
\* refresh token is held, and never a refresh grant.  When its response is
\* a usable token the Token Store is overwritten with it and the resend
\* carries it; the store then keeps that token while the resend is awaited,
\* after the call has ended (whatever the resend's response) and for as long
\* as no call is in flight, and a call that starts before the stored expiry
\* sends its data request at once with the token held.
C25_ReissueIsPasswordGrant ==
    /\ [][\A t \in Tasks, r \in DataResponses :
            (DataReply(t, r) /\ ~r.transport /\ r.status = 401) =>
                /\ sent'[t] = Append(sent[t], PasswordRequest)
                /\ sent'[t][Len(sent'[t])].grant_type = "password"
                /\ pc'[t] = "reauth_password"]_vars
    /\ [](\A t \in Tasks :
            \A i \in DOMAIN AfterData(t) :
                AfterData(t)[i].grant_type # "refresh_token")
    /\ [][\A t \in Tasks, r \in TokenResponses :
            (ReauthReply(t, r) /\ Usable(r)) =>
                /\ access_token' = r.data.access_token
                /\ refresh_token' =
                      Get(r.data, "refresh_token", refresh_token)
                /\ token_expires_at' =
                      now + Get(r.data, "expires_in", 3600) - 60
                /\ sent'[t][Len(sent'[t])].auth = r.data.access_token]_vars
    /\ [](\A t \in Tasks :
            Len(DataSent(t)) = 2 => access_token = DataSent(t)[2].auth)
    /\ [][(\A t \in Tasks : pc[t] \in {"idle", "done", "retry"}) =>
            store' = store]_vars
    /\ [][\A t \in Tasks, m \in Methods :
            ( /\ Start(t, m, Plain(m))
              /\ access_token # ""
              /\ now < token_expires_at ) =>
                sent'[t] = <<DataRequest(m, Plain(m), access_token)>>]_vars

\* A call that renewed its token by the refresh grant met a 401 and
\* re-issued by the password grant although it held a refresh token; the
\* resend failed with status 500, and the store holds the re-issued token,
\* which is not the one of the first attempt.
C25_Witness ==
    \E t \in Tasks :
        /\ pc[t] = "done"
        /\ statuses[t] = <<401, 500>>
        /\ Len(sent[t]) = 4
        /\ sent[t][1].grant_type = "refresh_token"
        /\ sent[t][3] = PasswordRequest
        /\ refresh_token # ""
        /\ access_token = DataSent(t)[2].auth
        /\ DataSent(t)[1].auth # DataSent(t)[2].auth


\* C26: the request resent after a 401 has the method, the URL (the API base
\* joined with the endpoint), the query parameters, the JSON body and the
\* Accept header of the first attempt; nothing but the Authorization header
\* can differ, and it carries the token just issued.  This holds for every
\* method and arguments, also while another call is in flight.
C26_ResendIdentical ==
    /\ [](\A t \in Tasks :
            Len(DataSent(t)) = 2 =>
                /\ DataSent(t)[2].method = DataSent(t)[1].method
                /\ DataSent(t)[2].url = DataSent(t)[1].url
                /\ DataSent(t)[2].params = DataSent(t)[1].params
                /\ DataSent(t)[2].json = DataSent(t)[1].json
                /\ DataSent(t)[2].accept = DataSent(t)[1].accept
                /\ DataSent(t)[2] =
                      [DataSent(t)[1] EXCEPT !.auth = DataSent(t)[2].auth])
    /\ [](\A t \in Tasks :
            \A i \in DOMAIN DataSent(t) :
                /\ DataSent(t)[i].method = op[t]
                /\ DataSent(t)[i].url =
                      settings.api_base \o args[t].endpoint
                /\ DataSent(t)[i].params = args[t].params
                /\ DataSent(t)[i].json = args[t].json_data
                /\ DataSent(t)[i].accept = "application/json")
    /\ [][\A t \in Tasks :
            ReauthReply(t, IssuedResponse) =>
                sent'[t][Len(sent'[t])].auth =
                    IssuedResponse.data.access_token]_vars

\* A get with query parameters has been resent after a 401 with another
\* token, while another call with other arguments is in flight.
C26_Witness ==
    \E t, u \in Tasks :
        /\ Len(DataSent(t)) = 2
        /\ op[t] = "GET"
        /\ DataSent(t)[1].params = "fname=Phil"
        /\ DataSent(t)[1].url =
              <<"https://localhost:9300", "apis", "default", "api", "patient">>
        /\ DataSent(t)[1].auth # DataSent(t)[2].auth
        /\ Running(u)
        /\ args[u] # args[t]


\* C27: every data request carries as bearer token the access token the
\* Token Store holds in the step that sends it, which is the step in which
\* Ensure-Token or the re-issuance after a 401 returned to the call (there is
\* no await between that return and the send); this token is never empty,
\* also on a client whose initialize() was never called, and also while
\* other calls renew the token.  A token another call stores later does not
\* change a request already sent.
C27_BearerIsHeldToken ==
    /\ [][\A t \in Tasks :
            ( /\ Len(sent'[t]) = Len(sent[t]) + 1
              /\ sent'[t][Len(sent'[t])].kind = "data" ) =>
                /\ sent'[t][Len(sent'[t])].auth = access_token'
                /\ access_token' # ""
                /\ \/ /\ sent[t] = <<>>
                      /\ access_token' = access_token
                      /\ now < token_expires_at
                   \/ \E r \in TokenResponses :
                         /\ Usable(r)
                         /\ access_token' = r.data.access_token
                         /\ pc[t] \in {"refresh", "ensure_password",
                                       "fallback_password",
                                       "reauth_password"}]_vars
    /\ [](\A t \in Tasks :
            \A i \in DOMAIN DataSent(t) : DataSent(t)[i].auth # "")
    /\ [][\A t \in Tasks :
            \A i \in DOMAIN sent[t] :
                i \in DOMAIN sent'[t] => sent'[t][i] = sent[t][i]]_vars

\* Two calls started on the client that was never initialized; each issued
\* a token of its own, and their data requests, both in flight, carry
\* different tokens: the first call's is no longer the one held.
C27_Witness ==
    \E t, u \in Tasks :
        /\ pc[t] = "data"
        /\ pc[u] = "data"
        /\ sent[t][1] = PasswordRequest
        /\ sent[u][1] = PasswordRequest
        /\ DataSent(t)[1].auth # DataSent(u)[1].auth
        /\ DataSent(u)[1].auth = access_token


\* C28: no call of initialize, get, post or close changes the user name, the
\* password, the scopes, the base URL, the site, the authorization base or
\* the API base.  The client identifier and the client secret change only
\* in the step in which initialize() accepts a registration response.  A get
\* or post never sends a registration request; every token request carries
\* the client identifier held, so a client built without one and never
\* initialized sends its token requests with an empty client_id.
C28_SettingsFrozen ==
    /\ [][settings' = settings]_vars
    /\ [](settings = NewSettings)
    /\ [][credentials' # credentials =>
            \E t \in Tasks, r \in RegistrationResponses :
                /\ op[t] = "initialize"
                /\ RegisterReply(t, r)
                /\ ~r.transport
                /\ r.status \in 200..299
                /\ r.json
                /\ client_id' = r.data.client_id]_vars
    /\ [](\A t \in Tasks :
            op[t] \in Methods =>
                /\ pc[t] # "register"
                /\ \A i \in DOMAIN sent[t] : sent[t][i].kind # "registration")
    /\ [][\A t \in Tasks :
            ( /\ Len(sent'[t]) = Len(sent[t]) + 1
              /\ op'[t] \in Methods
              /\ sent'[t][Len(sent'[t])].kind = "token" ) =>
                /\ sent'[t][Len(sent'[t])].client_id = client_id
                /\ credentials' = credentials]_vars

\* A get on a client built without a client identifier and never
\* initialized is waiting for a password grant sent with an empty client_id.
C28_Witness ==
    \E t \in Tasks :
        /\ OPENEMR_CLIENT_ID = ""
        /\ client_id = ""
        /\ op[t] = "GET"
        /\ pc[t] = "ensure_password"
        /\ sent[t] = <<PasswordPayload("", "")>>
        /\ _http = "open"


\* C29: a token request that meets a transport failure or a non-success
\* status, password or refresh grant, in Ensure-Token or after a 401, leaves
\* the access token, the refresh token and the expiry as they were.  So
\* when a call that began with a refresh grant has failed in Ensure-Token
\* with the authentication error, the token is still stale and the refresh
\* token still the one that call sent, and the next call, as every call
\* that finds the token stale and a refresh token held, sends the refresh
\* grant first, with that refresh token.
C29_FailedRequestKeepsStore ==
    /\ [][\A t \in Tasks, r \in TokenResponses :
            ( /\ \/ RefreshReply(t, r)
                 \/ PasswordReply(t, r)
                 \/ ReauthReply(t, r)
              /\ r.transport \/ r.status \notin 200..299 ) =>
                /\ access_token' = access_token
                /\ refresh_token' = refresh_token
                /\ token_expires_at' = token_expires_at]_vars
    /\ [](\A t \in Tasks :
            ( /\ pc[t] = "done"
              /\ result[t].kind = "OpenEMRAuthError"
              /\ DataSent(t) = <<>>
              /\ sent[t][1].grant_type = "refresh_token" ) =>
                /\ Stale
                /\ refresh_token # ""
                /\ refresh_token = sent[t][1].refresh_token
                /\ EnsureToken = "refresh")
    /\ [][\A t \in Tasks : Return(t) => store' = store]_vars
    /\ [][\A t \in Tasks, m \in Methods :
            (Start(t, m, Plain(m)) /\ Stale /\ refresh_token # "") =>
                /\ sent'[t] = <<RefreshRequest(refresh_token)>>
                /\ pc'[t] = "refresh"]_vars

\* After the clock passed the expiry, a call's refresh grant and its
\* fallback were both refused: the call has failed with the authentication
\* error and the store still holds the stale access token and the refresh
\* token the call sent.
C29_Witness ==
    \E t \in Tasks :
        /\ pc[t] = "done"
        /\ result[t] = Exception("OpenEMRAuthError", 401, "invalid_grant")
        /\ sent[t] = <<RefreshRequest("r1"), PasswordRequest>>
        /\ access_token # ""
        /\ refresh_token = "r1"
        /\ ticks > 0
        /\ now >= token_expires_at
        /\ token_expires_at > StartTime


\* C30: when the registration request of initialize() meets a transport
\* failure or a non-success status, initialize() ends with the
\* authentication error, has sent the registration request and no token
\* request, and leaves the Token Store as it was: empty (no access token,
\* no refresh token, expiry 0) on a client on which no token response was
\* stored before.
C30_FailedRegistrationNoToken ==
    /\ [][\A t \in Tasks, r \in RegistrationResponses :
            ( /\ RegisterReply(t, r)
              /\ r.transport \/ r.status \notin 200..299 ) =>
                /\ pc'[t] = "done"
                /\ result'[t].kind = "OpenEMRAuthError"
                /\ sent'[t] = <<RegistrationRequest>>
                /\ store' = store
                /\ data' = data
                /\ data = NoData => store' = <<"", "", 0>>]_vars
    /\ [](\A t \in Tasks :
            pc[t] = "register" =>
                /\ op[t] = "initialize"
                /\ sent[t] = <<RegistrationRequest>>)
    /\ [](data = NoData => store = <<"", "", 0>>)

\* The first call on the client, initialize(), has failed with the
\* authentication error of a registration that got no answer; only the
\* registration request was sent and the Token Store is empty.
C30_Witness ==
    \E t \in Tasks :
        /\ op[t] = "initialize"
        /\ pc[t] = "done"
        /\ result[t] = Exception("OpenEMRAuthError", 0, "timeout")
        /\ sent[t] = <<RegistrationRequest>>
        /\ data = NoData
        /\ store = <<"", "", 0>>


\* How far a call is: each await of _request comes later than the one
\* before it.
Rank(p) ==
    CASE p = "idle" -> 0
      [] p = "refresh" -> 1
      [] p \in {"ensure_password", "fallback_password"} -> 2
      [] p = "data" -> 3
      [] p = "reauth_password" -> 4
      [] p = "retry" -> 5
      [] OTHER -> 6

\* C31: when every HTTP call of a get/post completes, the call ends
\* (returns or raises).  It sends at most five requests, in this order: at
\* most one refresh grant and at most one password grant (Ensure-Token), the
\* data request, at most one password grant (after a 401) and at most one
\* more data request; a call that has failed has sent a beginning of that
\* sequence.  No step of a call goes back to an earlier await.
C31_CallTerminates ==
    /\ \A t \in Tasks : Running(t) ~> pc[t] = "done"
    /\ [](\A t \in Tasks :
            /\ Len(sent[t]) <= 5
            /\ Len(GrantsSent(t, "refresh_token")) <= 1
            /\ \A i \in DOMAIN sent[t] :
                  sent[t][i].grant_type = "refresh_token" => i = 1
            /\ Len(BeforeData(t)) <= 2
            /\ \A i \in DOMAIN BeforeData(t) :
                  BeforeData(t)[i].grant_type = "password" =>
                      i = Len(BeforeData(t))
            /\ \/ AfterData(t) \in {<<>>, <<PasswordRequest>>}
               \/ /\ Len(AfterData(t)) = 2
                  /\ AfterData(t)[1] = PasswordRequest
                  /\ AfterData(t)[2].kind = "data"
            /\ Len(DataSent(t)) <= 2
            /\ Len(sent[t]) <= Rank(pc[t]))
    /\ [][\A t \in Tasks :
            (pc[t] # "idle" /\ pc'[t] # pc[t] /\ pc'[t] # "idle") =>
                Rank(pc'[t]) > Rank(pc[t])]_vars

\* A call has ended after its five requests: refresh grant, password grant,
\* data request, password grant, data request.
C31_Witness ==
    \E t \in Tasks :
        /\ pc[t] = "done"
        /\ Len(sent[t]) = 5
        /\ sent[t][1].grant_type = "refresh_token"
        /\ sent[t][2].grant_type = "password"
        /\ sent[t][3].kind = "data"
        /\ sent[t][4].grant_type = "password"
        /\ sent[t][5].kind = "data"
        /\ Len(statuses[t]) = 2


\* The lifetime _token_request read from the token response stored last.
StoredLifetime == Get(data, "expires_in", DefaultExpiresIn)

\* C32: Ensure-Token tests staleness once, before renewing.  When the
\* renewal response it stores declares a lifetime of 60 seconds or less, the
\* stored expiry is at or before the current time, and the call still sends
\* its data request next, with the new token, without renewing again.  As
\* long as that token is the one held it is stale, so a call that starts
\* then sends a token request before its data request.
C32_NoRecheckAfterRenewal ==
    /\ [][\A t \in Tasks, r \in TokenResponses :
            ( /\ RefreshReply(t, r) \/ PasswordReply(t, r)
              /\ Usable(r)
              /\ Get(r.data, "expires_in", DefaultExpiresIn) <= ExpiryBuffer ) =>
                /\ token_expires_at' <= now
                /\ access_token' = r.data.access_token
                /\ pc'[t] = "data"
                /\ sent'[t] =
                      Append(sent[t],
                             DataRequest(op[t], args[t], r.data.access_token))
          ]_vars
    /\ []((access_token # "" /\ data.number /\ StoredLifetime <= ExpiryBuffer) =>
            now >= token_expires_at)
    /\ [][\A t \in Tasks, m \in Methods :
            ( /\ Start(t, m, Plain(m))
              /\ access_token # ""
              /\ data.number
              /\ StoredLifetime <= ExpiryBuffer ) =>
                /\ Len(sent'[t]) = 1
                /\ sent'[t][1].kind = "token"
                /\ pc'[t] \in {"refresh", "ensure_password"}]_vars
    /\ [](\A t \in Tasks :
            pc[t] = "data" => Len(BeforeData(t)) <= 2)

\* A call found a token of lifetime 60 stale, renewed it by the refresh
\* grant and got a token of lifetime 60 again: its data request is in flight
\* with the new token, which is stale as stored.
C32_Witness ==
    \E t \in Tasks :
        /\ pc[t] = "data"
        /\ Len(sent[t]) = 2
        /\ sent[t][1].grant_type = "refresh_token"
        /\ sent[t][2] = DataRequest(op[t], args[t], access_token)
        /\ "expires_in" \in data.keys
        /\ data.expires_in = ExpiryBuffer
        /\ token_expires_at = now


\* ------------------------------------------------------------ agent tools

\* The tool functions of agent.tools that call the client.
ToolNames ==
    {"patient_search", "get_patient_details", "get_allergies",
     "get_medications", "get_vitals", "get_medical_problems",
     "get_encounters", "get_appointments", "search_practitioners",
     "get_insurance"}

\* The tools whose argument is a free-text query.
SearchTools == {"patient_search", "search_practitioners"}

\* The queries tried, as query.strip().split() gives them: the empty query,
\* one word, two words, three words.
Queries ==
    {<<>>, <<"Dixon">>, <<"Phil", "Dixon">>, <<"Phil", "J", "Dixon">>}

\* The arguments each tool is called with.
ToolArguments(f) ==
    CASE f \in SearchTools -> Queries
      [] f = "get_vitals" -> {<<"p1", "e1">>}
      [] OTHER -> {<<"p1">>}

\* The path each tool passes to client.get.
Endpoint(f, a) ==
    CASE f = "patient_search" -> <<"patient">>
      [] f = "get_patient_details" -> <<"patient", a[1]>>
      [] f = "get_allergies" -> <<"patient", a[1], "allergy">>
      [] f = "get_medications" -> <<"patient", a[1], "medication">>
      [] f = "get_vitals" -> <<"patient", a[1], "encounter", a[2], "vital">>
      [] f = "get_medical_problems" -> <<"patient", a[1], "medical_problem">>
      [] f = "get_encounters" -> <<"patient", a[1], "encounter">>
      [] f = "get_appointments" -> <<"patient", a[1], "appointment">>
      [] f = "search_practitioners" -> <<"practitioner">>
      [] f = "get_insurance" -> <<"patient", a[1], "insurance">>

\* query.strip() of a query of at most one word.
Stripped(parts) == IF parts = <<>> THEN "" ELSE parts[1]

\* A params dict: the keys it has and their values.
NoParams == [keys |-> {}, fname |-> "", lname |-> ""]
ByName(fn, ln) == [keys |-> {"fname", "lname"}, fname |-> fn, lname |-> ln]
ByLastName(ln) == [keys |-> {"lname"}, fname |-> "", lname |-> ln]
ByFirstName(fn) == [keys |-> {"fname"}, fname |-> fn, lname |-> ""]

\* The params of a search tool's first search: first and last word of a
\* query of two words or more, else the whole query as the last name.
NameParams(parts) ==
    IF Len(parts) >= 2
    THEN ByName(parts[1], parts[Len(parts)])
    ELSE ByLastName(Stripped(parts))

\* The params of the first client.get of a tool.
FirstParams(f, a) == IF f \in SearchTools THEN NameParams(a) ELSE NoParams

\* The query string of a params dict, for the dicts the tools build.
Urlencode(p) ==
    CASE p = NoParams -> "None"
      [] p = ByLastName("") -> "lname="
      [] p = ByLastName("Dixon") -> "lname=Dixon"
      [] p = ByFirstName("Dixon") -> "fname=Dixon"
      [] p = ByName("Phil", "Dixon") -> "fname=Phil&lname=Dixon"

\* The arguments of client.get as a tool calls it.
GetArguments(e, p) ==
    [endpoint |-> e, params |-> Urlencode(p), json_data |-> "None"]

\* What the API answers a tool's request: a transport failure, an object
\* with an empty or a non-empty "data" list or without that key, a body
\* that is not JSON, a rejected token, an error status.
ToolResponses ==
    {[transport |-> TRUE, status |-> 0, text |-> "timeout", json |-> FALSE,
      value |-> "none"],
     [transport |-> FALSE, status |-> 200, text |-> "{data: []}",
      json |-> TRUE, value |-> "no records"],
     [transport |-> FALSE, status |-> 200, text |-> "{data: [r]}",
      json |-> TRUE, value |-> "records"],
     [transport |-> FALSE, status |-> 200, text |-> "{}",
      json |-> TRUE, value |-> "no data key"],
     [transport |-> FALSE, status |-> 200, text |-> "<html>", json |-> FALSE,
      value |-> "none"],
     [transport |-> FALSE, status |-> 401, text |-> "Token expired",
      json |-> FALSE, value |-> "none"],
     [transport |-> FALSE, status |-> 404, text |-> "Not Found",
      json |-> FALSE, value |-> "none"]}

\* data.get("data", []) of a returned object: its records, or none.
DataGet(v) == IF v = "records" THEN "records" ELSE "empty"

\* The f-string each tool returns for an API error of its first client.get.
ErrorTemplate(f) ==
    CASE f = "patient_search" -> "Error searching for patients: {e.detail}"
      [] f = "get_patient_details" ->
            "Error fetching patient details: {e.detail}"
      [] f = "get_allergies" -> "Error fetching allergies: {e.detail}"
      [] f = "get_medications" -> "Error fetching medications: {e.detail}"
      [] f = "get_vitals" -> "Error fetching vitals: {e.detail}"
      [] f = "get_medical_problems" ->
            "Error fetching medical problems: {e.detail}"
      [] f = "get_encounters" -> "Error fetching encounters: {e.detail}"
      [] f = "get_appointments" -> "Error fetching appointments: {e.detail}"
      [] f = "search_practitioners" ->
            "Error searching practitioners: {e.detail}"
      [] f = "get_insurance" -> "Error fetching insurance: {e.detail}"

\* What each tool returns when there are no records.
EmptyTemplate(f) ==
    CASE f = "patient_search" -> "No patients found matching '{query}'."
      [] f = "get_patient_details" ->
            "No patient found with UUID '{patient_uuid}'."
      [] f = "get_allergies" -> "No allergies recorded for this patient."
      [] f = "get_medications" -> "No medications recorded for this patient."
      [] f = "get_vitals" -> "No vitals recorded for this encounter."
      [] f = "get_medical_problems" ->
            "No medical problems recorded for this patient."
      [] f = "get_encounters" -> "No encounters found for this patient."
      [] f = "get_appointments" -> "No appointments found for this patient."
      [] f = "search_practitioners" ->
            "No practitioners found matching '{query}'."
      [] f = "get_insurance" ->
            "No insurance information recorded for this patient."

\* A tool returns a string; detail is the error detail put into it.
Said(template, d) == [kind |-> "return", template |-> template, detail |-> d]
\* An exception of the client leaves the tool as it is.
Propagated(res) == [kind |-> res.kind, template |-> "", detail |-> res.detail]

\* What a tool returns once it has its results: the message for no records,
\* or the records formatted.
Formatted(f, rs) ==
    IF rs = "empty"
    THEN Said(EmptyTemplate(f), "")
    ELSE Said("formatted records", "")

\* The tool ends: it returns or raises.
ToolFinish(o) ==
    /\ tpc' = "done"
    /\ outcome' = o

\* Faulty variant: a query of any number of words is tried again as a first name.
SearchesAgain_AnyLength(f, a, rs) == f = "patient_search" /\ rs = "empty"

\* Whether patient_search tries the query as a first name after its first
\* search.
SearchesAgain(f, a, rs) ==
    f = "patient_search" /\ rs = "empty" /\ Len(a) = 1

\* A tool is called: up to the first await of get_client().
ToolEnter(f, a, t) ==
    /\ tpc = "idle"
    /\ \A u \in Tasks : pc[u] = "idle"
    /\ GetClientStart(t)
    /\ tool' = f
    /\ argv' = a
    /\ tpc' = "get_client"
    /\ UNCHANGED <<searches, results, outcome>>

\* get_client() is over: the tool has the client, or get_client's exception
\* leaves the tool, which has no handler around that call.
GotClient(t) ==
    /\ tpc = "get_client"
    /\ Return(t)
    /\ IF result[t].kind = "return"
       THEN /\ tpc' = "call_first"
            /\ UNCHANGED outcome
       ELSE ToolFinish(Propagated(result[t]))
    /\ UNCHANGED <<tool, argv, searches, results>>

\* The tool's first client.get, up to its first await.  It follows
\* get_client's return in the same step of the event loop: nothing else
\* runs between the two.
FirstGet(t) ==
    /\ tpc = "call_first"
    /\ SequentialStart(t, "GET",
                       GetArguments(Endpoint(tool, argv),
                                    FirstParams(tool, argv)))
    /\ searches' = Append(searches, FirstParams(tool, argv))
    /\ tpc' = "first"
    /\ UNCHANGED <<tool, argv, results, outcome>>

\* Faulty variant: the API error of the first client.get leaves the tool.
FirstDone_Raises(t) ==
    /\ tpc = "first"
    /\ Return(t)
    /\ IF result[t].kind = "return"
       THEN /\ results' = DataGet(result[t].value)
            /\ IF SearchesAgain(tool, argv, results')
               THEN /\ tpc' = "call_second"
                    /\ UNCHANGED outcome
               ELSE ToolFinish(Formatted(tool, results'))
       ELSE /\ ToolFinish(Propagated(result[t]))
            /\ UNCHANGED results
    /\ UNCHANGED <<tool, argv, searches>>

\* The first client.get is over: its API error becomes the returned error
\* string, any other exception leaves the tool, and a returned object gives
\* the results, after which patient_search may search again.
FirstDone(t) ==
    /\ tpc = "first"
    /\ Return(t)
    /\ CASE result[t].kind = "OpenEMRAPIError" ->
              /\ ToolFinish(Said(ErrorTemplate(tool), result[t].detail))
              /\ UNCHANGED results
         [] result[t].kind = "return" ->
              /\ results' = DataGet(result[t].value)
              /\ IF SearchesAgain(tool, argv, results')
                 THEN /\ tpc' = "call_second"
                      /\ UNCHANGED outcome
                 ELSE ToolFinish(Formatted(tool, results'))
         [] OTHER ->
              /\ ToolFinish(Propagated(result[t]))
              /\ UNCHANGED results
    /\ UNCHANGED <<tool, argv, searches>>

\* patient_search's second client.get, up to its first await, in the step
\* in which the first one returned.
SecondGet(t) ==
    /\ tpc = "call_second"
    /\ SequentialStart(t, "GET",
                       GetArguments(<<"patient">>,
                                    ByFirstName(Stripped(argv))))
    /\ searches' = Append(searches, ByFirstName(Stripped(argv)))
    /\ tpc' = "second"
    /\ UNCHANGED <<tool, argv, results, outcome>>

\* The second client.get is over: its API error is passed over and the
\* results stay empty, any other exception leaves the tool, and a returned
\* object gives the results.
SecondDone(t) ==
    /\ tpc = "second"
    /\ Return(t)
    /\ CASE result[t].kind = "OpenEMRAPIError" ->
              /\ ToolFinish(Formatted(tool, results))
              /\ UNCHANGED results
         [] result[t].kind = "return" ->
              /\ results' = DataGet(result[t].value)
              /\ ToolFinish(Formatted(tool, results'))
         [] OTHER ->
              /\ ToolFinish(Propagated(result[t]))
              /\ UNCHANGED results
    /\ UNCHANGED <<tool, argv, searches>>

\* The tool's caller has its result.
ToolReturn ==
    /\ tpc = "done"
    /\ tool' = "none"
    /\ argv' = <<>>
    /\ tpc' = "idle"
    /\ searches' = <<>>
    /\ results' = "unset"
    /\ outcome' = NoOutcome
    /\ UNCHANGED <<store, data, setup, now, ticks, pc, op, args, sent,
                   statuses, result>>

\* The agent calls its tools one after another in a process that starts
\* without a client.  The clock stands still.
NextTools ==
    \/ \E t \in Tasks, f \in ToolNames :
          \E a \in ToolArguments(f) : ToolEnter(f, a, t)
    \/ \E t \in Tasks, r \in RegistrationResponses : RegisterReply(t, r)
          /\ UNCHANGED tools
    \/ \E t \in Tasks, r \in TokenResponsesNoClock : InitPasswordReply(t, r)
          /\ UNCHANGED tools
    \/ \E t \in Tasks : GotClient(t)
    \/ \E t \in Tasks : FirstGet(t)
    \/ \E t \in Tasks, r \in TokenResponsesNoClock : RefreshReply(t, r)
          /\ UNCHANGED tools
    \/ \E t \in Tasks, r \in TokenResponsesNoClock : PasswordReply(t, r)
          /\ UNCHANGED tools
    \/ \E t \in Tasks, r \in ToolResponses : DataReply(t, r)
          /\ UNCHANGED tools
    \/ \E t \in Tasks, r \in TokenResponsesNoClock : ReauthReply(t, r)
          /\ UNCHANGED tools
    \/ \E t \in Tasks, r \in ToolResponses : RetryReply(t, r)
          /\ UNCHANGED tools
    \/ \E t \in Tasks : FirstDone(t)
    \/ \E t \in Tasks : SecondGet(t)
    \/ \E t \in Tasks : SecondDone(t)
    \/ ToolReturn

SpecTools == InitSingleton /\ [][NextTools]_vars


\* C33: every tool turns an API error of its first client.get into a
\* returned error string that holds the error's detail, and no tool ever
\* raises an API error; an authentication error of get_client or of a
\* client.get leaves the tool as the exception it is.
C33_ToolErrorHandling ==
    /\ [][\A t \in Tasks :
            ( /\ tpc = "first"
              /\ pc[t] = "done"
              /\ result[t].kind = "OpenEMRAPIError"
              /\ tpc' # tpc ) =>
                /\ tool \in ToolNames
                /\ tpc' = "done"
                /\ outcome'.kind = "return"
                /\ outcome'.template = ErrorTemplate(tool)
                /\ outcome'.detail = result[t].detail]_vars
    /\ [](outcome.kind # "OpenEMRAPIError")
    /\ [][\A t \in Tasks :
            ( /\ tpc \in {"get_client", "first", "second"}
              /\ pc[t] = "done"
              /\ result[t].kind = "OpenEMRAuthError"
              /\ tpc' # tpc ) =>
                /\ tpc' = "done"
                /\ outcome'.kind = "OpenEMRAuthError"
                /\ outcome'.detail = result[t].detail]_vars
    /\ [](tpc = "done" => outcome.kind # "none")

\* get_insurance has returned its error string for a 404 answer of the API.
C33_Witness ==
    /\ tool = "get_insurance"
    /\ tpc = "done"
    /\ outcome = Said("Error fetching insurance: {e.detail}", "Not Found")

\* The answer of patient_search for a query without matches.
NoPatientsFound == Said("No patients found matching '{query}'.", "")

\* C34: patient_search searches a second time, by first name, exactly when
\* the query is one word and the first search, by last name, returned no
\* records; it never searches more than twice.  An API error of the second
\* search is passed over and the answer is the "No patients found" message;
\* an API error of the first search gives the error string and no second
\* search.  When the searches made returned no records, the answer is the
\* "No patients found" message.
C34_PatientSearch ==
    /\ [](tool = "patient_search" =>
            /\ Len(searches) <= 2
            /\ tpc \in {"first", "call_second", "second"} =>
                  /\ searches # <<>>
                  /\ searches[1] = NameParams(argv)
            /\ Len(searches) = 2 =>
                  /\ Len(argv) = 1
                  /\ searches[1] = ByLastName(argv[1])
                  /\ searches[2] = ByFirstName(argv[1])
                  /\ tpc \in {"second", "done"}
            /\ tpc \in {"call_second", "second"} =>
                  /\ results = "empty"
                  /\ Len(argv) = 1
            /\ (tpc = "done" /\ outcome.kind = "return" /\ results = "empty")
                  => outcome = NoPatientsFound)
    /\ [][\A t \in Tasks :
            ( /\ tool = "patient_search"
              /\ tpc = "first"
              /\ pc[t] = "done"
              /\ tpc' # tpc ) =>
                IF /\ result[t].kind = "return"
                   /\ DataGet(result[t].value) = "empty"
                   /\ Len(argv) = 1
                THEN /\ tpc' = "call_second"
                     /\ searches' = searches
                ELSE /\ tpc' = "done"
                     /\ Len(searches') = 1
                     /\ result[t].kind = "OpenEMRAPIError" =>
                           outcome' =
                               Said("Error searching for patients: {e.detail}",
                                    result[t].detail)
                     /\ result[t].kind = "return" =>
                           outcome' =
                               IF DataGet(result[t].value) = "empty"
                               THEN NoPatientsFound
                               ELSE Said("formatted records", "")]_vars
    /\ [][(tool = "patient_search" /\ tpc = "call_second" /\ tpc' # tpc) =>
            /\ tpc' = "second"
            /\ searches' = Append(searches, ByFirstName(argv[1]))
            /\ \E t \in Tasks :
                  /\ Len(sent'[t]) = 1
                  /\ args'[t].endpoint = <<"patient">>
                  /\ args'[t].params = "fname=Dixon"]_vars
    /\ [][\A t \in Tasks :
            ( /\ tool = "patient_search"
              /\ tpc = "second"
              /\ pc[t] = "done"
              /\ tpc' # tpc ) =>
                /\ tpc' = "done"
                /\ Len(searches') = 2
                /\ result[t].kind = "OpenEMRAPIError" =>
                      outcome' = NoPatientsFound
                /\ (result[t].kind = "return"
                      /\ DataGet(result[t].value) = "empty") =>
                      outcome' = NoPatientsFound]_vars

\* patient_search of a one-word query has searched by last name and by
\* first name and answered that no patients were found.
C34_Witness ==
    /\ tool = "patient_search"
    /\ argv = <<"Dixon">>
    /\ tpc = "done"
    /\ searches = <<ByLastName("Dixon"), ByFirstName("Dixon")>>
    /\ results = "empty"
    /\ outcome = Said("No patients found matching '{query}'.", "")

====
